---- MODULE Spec2Model ----
(***************************************************************************)
(* A model of the give-tree interval cache: the facade GiveTree over a     *)
(* SampleNode root (reverseDepth 0) whose slots are null (Unloaded),       *)
(* false (Empty) or DataNode bins.  Coordinates are 0-based half-open.     *)
(***************************************************************************)
EXTENDS Integers, Sequences, FiniteSets, TLC

\* ---------------------------------------------------------------- bounds
MaxCoord == 3        \* the covering range is [0, MaxCoord)
MaxData == 3         \* intervals held by the data source
BalCoord == 5        \* the covering range of the trees with a small
                     \* branching factor is [0, BalCoord)
MaxGen == 3          \* the generation wraps to 0 when it reaches MaxGen
                     \* (GiveTree.MAX_GENERATION)
MaxCalls == 4        \* calls made on a tree that withers
MaxDeepData == 2     \* intervals held by the data source of the trees
                     \* of several levels
MaxAmount == 2       \* the amounts passed to _advanceGen
MaxBinData == 3      \* intervals held by the callers of a bin's own methods

\* -------------------------------------------------------- program constants
DEFAULT_B_FACTOR == 50
DEFAULT_LIFE_SPAN == 10

\* ------------------------------------------------------------- intervals
\* An interval object: coordinates, a payload `val` (compared by equalTo) and
\* an object identity `id` (two records with different id are distinct
\* objects; a clone has the same start, end and val).
Ids == {0, 1}
Vals == {0}

\* the intervals a data source may hold, without their object identity
BasePool == {x \in [start : 0..(MaxCoord - 1), end : 1..MaxCoord, val : Vals] :
               x.start < x.end}

\* the object with identity k of an interval of the data source
Obj(x, k) == [start |-> x.start, end |-> x.end, val |-> x.val, id |-> k]

Ranges == {r \in [start : 0..(MaxCoord - 1), end : 1..MaxCoord] : r.start < r.end}

\* F applied to a value, so that F's body can name it
Let(x, F(_)) == F(x)

Min2(a, b) == IF a < b THEN a ELSE b
Max2(a, b) == IF a > b THEN a ELSE b

Region(s, e) == [start |-> s, end |-> e]

\* ChromRegion.compare: by start, then by end
Compare(a, b) ==
  IF a.start = b.start
    THEN (IF a.end = b.end THEN 0 ELSE IF a.end > b.end THEN 1 ELSE -1)
    ELSE IF a.start > b.start THEN 1 ELSE -1

\* ChromRegion.equalTo: structural equality
EqualTo(a, b) == a.start = b.start /\ a.end = b.end /\ a.val = b.val

\* ChromRegion.overlaps: the length of the overlap, as a boolean
Overlaps(a, b) ==
  /\ a.start < b.end
  /\ b.start < a.end
  /\ Min2(a.end, b.end) - Max2(a.start, b.start) > 0

\* ChromRegion.getMinus: the parts of a outside b, left part first
GetMinus(a, b) ==
  IF ~Overlaps(a, b) THEN <<Region(a.start, a.end)>>
  ELSE (IF a.start < b.start THEN <<Region(a.start, b.start)>> ELSE <<>>)
       \o (IF a.end > b.end THEN <<Region(b.end, a.end)>> ELSE <<>>)

\* ------------------------------------------------------ sequence helpers
\* an array given by its elements: a sequence, whatever way it was written
AsArray(f) == SubSeq(f, 1, Len(f))
RemoveAt(s, i) == SubSeq(s, 1, i - 1) \o SubSeq(s, i + 1, Len(s))
InsertAt(s, i, x) == SubSeq(s, 1, i - 1) \o <<x>> \o SubSeq(s, i, Len(s))
Elems(s) == {s[i] : i \in DOMAIN s}

RECURSIVE InsertSorted(_, _)
InsertSorted(s, x) ==
  IF s = <<>> THEN <<x>>
  ELSE IF Compare(s[Len(s)], x) <= 0 THEN Append(s, x)
  ELSE Append(InsertSorted(SubSeq(s, 1, Len(s) - 1), x), s[Len(s)])

\* Array.prototype.sort(ChromRegion.compare): a stable sort
RECURSIVE SortList(_)
SortList(s) ==
  IF s = <<>> THEN <<>>
  ELSE InsertSorted(SortList(SubSeq(s, 1, Len(s) - 1)), s[Len(s)])

\* ------------------------------------------------------------------ slots
NullSlot == [kind |-> "null", start |-> 0, startList |-> <<>>, continuedList |-> <<>>]
FalseSlot == [kind |-> "false", start |-> 0, startList |-> <<>>, continuedList |-> <<>>]
Bin(s, sl, cl) == [kind |-> "bin", start |-> s, startList |-> sl, continuedList |-> cl]
IsBin(v) == v.kind = "bin"

\* DataNode.isEmpty
BinIsEmpty(b) == Len(b.startList) <= 0 /\ Len(b.continuedList) <= 0

\* GiveNonLeafNode.emptyChildValue
EmptyChildValue(local) == IF local THEN FalseSlot ELSE NullSlot

\* GiveNonLeafNode constructor, no keys given: one filler slot over the range
NewRoot(local) == [keys |-> <<0, MaxCoord>>, values |-> <<EmptyChildValue(local)>>]

ChildNum(node) == Len(node.values)
CoveringRange(node) == Region(node.keys[1], node.keys[Len(node.keys)])

\* ------------------------------------------------- uncached range query
Hull(a, b) == Region(Min2(a.start, b.start), Max2(a.end, b.end))

\* the inner for loop of getUncachedRange: res[idx] assimilates every later
\* region that overlaps it
RECURSIVE AssimilateLater(_, _, _)
AssimilateLater(res, idx, i) ==
  IF i > Len(res) THEN res
  ELSE IF Overlaps(res[idx], res[i])
    THEN AssimilateLater(RemoveAt([res EXCEPT ![idx] = Hull(res[idx], res[i])], i), idx, i)
    ELSE AssimilateLater(res, idx, i + 1)

\* resRegion.assimilate(newRegion) || resRegion.concat(newRegion)
Absorbs(r, new) == Overlaps(r, new) \/ r.end = new.start \/ r.start = new.end

\* the body of the `null` branch of getUncachedRange: add a region to the
\* accumulated list
AddUncached(res, new) ==
  IF \E k \in DOMAIN res : Absorbs(res[k], new)
    THEN LET k == CHOOSE k \in DOMAIN res :
                    Absorbs(res[k], new) /\ \A m \in 1..(k - 1) : ~Absorbs(res[m], new)
         IN AssimilateLater([res EXCEPT ![k] = Hull(res[k], new)], k, k + 1)
    ELSE SortList(Append(res, new))

\* first slot (1-based) whose end is beyond coordinate c, from slot i on
RECURSIVE SkipTo(_, _, _)
SkipTo(node, i, c) ==
  IF i <= ChildNum(node) /\ node.keys[i + 1] <= c THEN SkipTo(node, i + 1, c) ELSE i

\* a child that is an inner node is a record of keys and values like the
\* root; a slot (null, false or a bin) has a kind
IsNode(v) == "keys" \in DOMAIN v

\* the second while loop of getUncachedRange, which descends into a child
\* that is a node (a bin has nothing uncached)
RECURSIVE UncachedLoop(_, _, _, _)
UncachedLoop(node, i, r, res) ==
  IF i <= ChildNum(node) /\ node.keys[i] < r.end
    THEN UncachedLoop(node, i + 1, r,
           IF IsNode(node.values[i])
             THEN UncachedLoop(node.values[i], SkipTo(node.values[i], 1, r.start), r, res)
           ELSE IF node.values[i].kind = "null"
             THEN AddUncached(res, Region(Max2(node.keys[i], r.start),
                                          Min2(node.keys[i + 1], r.end)))
             ELSE res)
    ELSE res

\* GiveNonLeafNode.getUncachedRange
NodeGetUncachedRange(node, r, res) == UncachedLoop(node, SkipTo(node, 1, r.start), r, res)

\* GiveNonLeafNode.hasUncachedRange
RECURSIVE NodeHasUncachedRange(_, _)
NodeHasUncachedRange(node, r) ==
  \E i \in SkipTo(node, 1, r.start)..ChildNum(node) :
     /\ node.keys[i] < r.end
     /\ IF IsNode(node.values[i]) THEN NodeHasUncachedRange(node.values[i], r)
        ELSE node.values[i].kind = "null"

\* GiveNonLeafNode.truncateChrRange(chrRange, true, false)
TruncateStart(node, r) == IF r.start < node.keys[1] THEN Region(node.keys[1], r.end) ELSE r

\* getUncachedRange that does not look at localOnly
GetUncachedRangeAnyTree(local, node, r, res) ==
  NodeGetUncachedRange(node, TruncateStart(node, r), res)

\* GiveTree.getUncachedRange
GetUncachedRange(local, node, r, res) ==
  IF ~local THEN NodeGetUncachedRange(node, TruncateStart(node, r), res) ELSE <<>>

\* GiveTree.hasUncachedRange
HasUncachedRange(local, node, r) ==
  IF ~local THEN NodeHasUncachedRange(node, TruncateStart(node, r)) ELSE FALSE

\* --------------------------------------------------------------- traversal
\* The options of a traversal (props) that do not change while it runs:
\*   mode        "user": props.dataCallback records its argument;
\*               "sync": props.dataCallback is DataNode._updateExtContinuedList;
\*               "post": props.nodeCallback is DataNode.postInsertOp
\*   allowNull, breakOnFalse
\*   rejectEnd   props.dataFilter rejects the entries with this end (-1: no filter)
\*   falseStart  props.dataCallback returns false on the entries with this
\*               start (-1: it always returns a truthy value)
TravProps(mode, allowNull, breakOnFalse, rejectEnd, falseStart) ==
  [mode |-> mode, allowNull |-> allowNull, breakOnFalse |-> breakOnFalse,
   rejectEnd |-> rejectEnd, falseStart |-> falseStart]

\* What a traversal changes as it runs: chrRange (callbacks may move its
\* start), props.notFirstCall, the entries passed to the user's callback, the
\* two extra arguments of the sync callback (pre, ext) and a raised error.
TravState(r, notFirstCall, pre, ext) ==
  [range |-> r, notFirstCall |-> notFirstCall, log |-> <<>>,
   pre |-> pre, ext |-> ext, err |-> ""]

\* DataNode._updateExtContinuedList without its check of the list
UpdateExtContinuedListUnchecked(entry, ts) ==
  IF ts.pre = <<>> THEN ts
  ELSE IF EqualTo(entry, ts.pre[1])
    THEN LET rest == Tail(ts.pre)
         IN [ts EXCEPT !.ext = Append(ts.ext, entry),
                       !.pre = rest,
                       !.range = Region(IF rest # <<>>
                                          THEN Min2(rest[1].start, ts.range.end)
                                          ELSE ts.range.end,
                                        ts.range.end)]
  ELSE ts

\* DataNode._updateExtContinuedList
UpdateExtContinuedList(entry, ts) ==
  IF ts.pre = <<>> THEN ts
  ELSE IF ts.pre[1].start < entry.start THEN [ts EXCEPT !.err = "Inconsistent"]
  ELSE IF EqualTo(entry, ts.pre[1])
    THEN LET rest == Tail(ts.pre)
         IN [ts EXCEPT !.ext = Append(ts.ext, entry),
                       !.pre = rest,
                       !.range = Region(IF rest # <<>>
                                          THEN Min2(rest[1].start, ts.range.end)
                                          ELSE ts.range.end,
                                        ts.range.end)]
  ELSE ts

\* callFunc that does not consult props.dataFilter
CallFuncNoFilter(entry, p, ts) ==
  IF ts.range.start >= entry.end \/ entry.start >= ts.range.end
    THEN [ts |-> ts, ok |-> TRUE]
  ELSE IF p.mode = "sync"
    THEN Let(UpdateExtContinuedList(entry, ts), LAMBDA t : [ts |-> t, ok |-> t.err = ""])
  ELSE [ts |-> [ts EXCEPT !.log = Append(ts.log, entry)],
        ok |-> (entry.start # p.falseStart) \/ ~p.breakOnFalse]

\* GiveTreeNode._callFuncOnDataEntry inside callFunc of
\* DataNode._traverseChildren: the new state and the value returned
CallFunc(entry, p, ts) ==
  IF ts.range.start >= entry.end \/ entry.start >= ts.range.end
    THEN [ts |-> ts, ok |-> TRUE]
  ELSE IF p.mode = "sync"
    THEN Let(UpdateExtContinuedList(entry, ts), LAMBDA t : [ts |-> t, ok |-> t.err = ""])
  ELSE IF p.rejectEnd = entry.end
    THEN [ts |-> ts, ok |-> TRUE]
  ELSE [ts |-> [ts EXCEPT !.log = Append(ts.log, entry)],
        ok |-> (entry.start # p.falseStart) \/ ~p.breakOnFalse]

\* Array.prototype.forEach in the place of every: a falsy value does not stop
\* the walk
RECURSIVE ForEachFrom(_, _, _, _)
ForEachFrom(list, i, p, ts) ==
  IF i > Len(list) THEN [ts |-> ts, ok |-> TRUE]
  ELSE Let(CallFunc(list[i], p, ts), LAMBDA r : ForEachFrom(list, i + 1, p, r.ts))

\* Array.prototype.every(callFunc) from index i on
RECURSIVE EveryFrom(_, _, _, _)
EveryFrom(list, i, p, ts) ==
  IF i > Len(list) THEN [ts |-> ts, ok |-> TRUE]
  ELSE Let(CallFunc(list[i], p, ts), LAMBDA r :
         IF r.ok THEN EveryFrom(list, i + 1, p, r.ts) ELSE r)

\* DataNode._traverseChildren
BinTraverseChildren(bin, p, ts) ==
  Let(IF ~ts.notFirstCall THEN EveryFrom(bin.continuedList, 1, p, ts)
      ELSE [ts |-> ts, ok |-> TRUE],
      LAMBDA c :
        IF ~c.ok THEN c
        ELSE EveryFrom(bin.startList, 1, p, [c.ts EXCEPT !.notFirstCall = TRUE]))

\* a walk that leaves the bin's own objects where they are
ContinuedWalkKeepsOwn(self, ext, si, ei) == self

\* a walk that puts the object of the other list in every place it reaches
RECURSIVE ContinuedWalkOverwrites(_, _, _, _)
ContinuedWalkOverwrites(self, ext, si, ei) ==
  IF si > Len(self) \/ ei > Len(ext) THEN self
  ELSE ContinuedWalkOverwrites([self EXCEPT ![si] = ext[ei]], ext, si + 1, ei + 1)

\* DataNode._updateContinuedList: the walk over both lists
RECURSIVE ContinuedWalk(_, _, _, _)
ContinuedWalk(self, ext, si, ei) ==
  IF si > Len(self) \/ ei > Len(ext) THEN self
  ELSE LET c == Compare(self[si], ext[ei])
       IN IF c < 0 THEN ContinuedWalk(self, ext, si + 1, ei)
          ELSE IF c > 0 THEN ContinuedWalk(self, ext, si, ei + 1)
          ELSE ContinuedWalk([self EXCEPT ![si] = ext[ei]], ext, si + 1, ei + 1)

\* an update that puts the objects of extList in the places the walk reaches
UpdateContinuedListOverwrites(bin, extList) ==
  LET ext == SelectSeq(extList, LAMBDA e : e.end > bin.start)
  IN [bin |-> [bin EXCEPT !.continuedList =
                 ContinuedWalkOverwrites(bin.continuedList, ext, 1, 1)],
      ext |-> ext]

\* DataNode._updateContinuedList(extList): the bin and the shortened extList
UpdateContinuedList(bin, extList) ==
  LET ext == SelectSeq(extList, LAMBDA e : e.end > bin.start)
  IN [bin |-> [bin EXCEPT !.continuedList = ContinuedWalk(bin.continuedList, ext, 1, 1)],
      ext |-> ext]

\* GiveTreeNode.traverse on a bin: nodeCallback (DataNode.postInsertOp) when
\* there is one, else the data entries
BinTraverse(bin, p, ts) ==
  IF p.mode = "post"
    THEN Let(UpdateContinuedList(bin, ts.ext), LAMBDA u :
           [ts |-> [ts EXCEPT !.ext = u.ext], ok |-> TRUE, bin |-> u.bin])
    ELSE Let(BinTraverseChildren(bin, p, ts), LAMBDA r :
           [ts |-> r.ts, ok |-> r.ok, bin |-> bin])

\* the test that ignores props.allowNull
NotReadyAlways(node, j, p) == node.values[j].kind = "null"

\* the test before the throw of GiveNonLeafNode._traverseChildren
NotReady(node, j, p) == ~p.allowNull /\ node.values[j].kind = "null"

\* GiveNonLeafNode._traverseChildren, from slot i on; a child that is a node
\* is traversed in its turn (GiveTreeNode.traverse: the node filter of the
\* post-insertion pass rejects non-leaf nodes)
RECURSIVE TraverseLoop(_, _, _, _)
TraverseLoop(node, i, p, ts) ==
  IF ~(i <= ChildNum(node) /\ node.keys[i] < ts.range.end)
    THEN [ts |-> ts, ok |-> TRUE, node |-> node]
  ELSE Let(SkipTo(node, i, ts.range.start), LAMBDA j :
    IF j > ChildNum(node)
      THEN [ts |-> [ts EXCEPT !.notFirstCall = TRUE], ok |-> TRUE, node |-> node]
    ELSE IF IsNode(node.values[j])
      THEN Let(TraverseLoop(node.values[j], 1, p, ts), LAMBDA r :
             IF ~r.ok
               THEN [ts |-> r.ts, ok |-> FALSE, node |-> [node EXCEPT !.values[j] = r.node]]
               ELSE TraverseLoop([node EXCEPT !.values[j] = r.node], j + 1, p,
                                 [r.ts EXCEPT !.notFirstCall = TRUE]))
    ELSE IF NotReady(node, j, p)
      THEN [ts |-> [ts EXCEPT !.err = "DataNotReady"], ok |-> FALSE, node |-> node]
    ELSE IF IsBin(node.values[j])
      THEN Let(BinTraverse(node.values[j], p, ts), LAMBDA r :
             IF ~r.ok
               THEN [ts |-> r.ts, ok |-> FALSE, node |-> [node EXCEPT !.values[j] = r.bin]]
               ELSE TraverseLoop([node EXCEPT !.values[j] = r.bin], j + 1, p,
                                 [r.ts EXCEPT !.notFirstCall = TRUE]))
    ELSE TraverseLoop(node, j + 1, p,
           [ts EXCEPT !.notFirstCall = (node.values[j].kind # "null")]))

\* GiveNonLeafNode.traverse (GiveTreeNode.traverse; the node filter of the
\* post-insertion pass rejects non-leaf nodes)
NodeTraverse(node, p, ts) == TraverseLoop(node, 1, p, ts)

\* GiveTree.traverse: the range is truncated at the start only
TreeTraverse(node, r, p, notFirstCall, pre, ext) ==
  NodeTraverse(node, p, TravState(TruncateStart(node, r), notFirstCall, pre, ext))

\* --------------------------------------------------------------- insertion
\* The part of props (and of the data array) that one insertion reads and
\* writes: data (the caller's array), cl (props.continuedList), log (the
\* entries passed to props.dataCallback), post (props._postInsertionOpRange)
\* and a raised error.
NoRegion == Region(-1, -1)
InsCtx(data, cl) == [data |-> data, cl |-> cl, log |-> <<>>, post |-> NoRegion, err |-> ""]

\* GiveTreeNode._traverseData with the criterion `start < s`: the number of
\* entries from index di on that meet it
RECURSIVE CountBefore(_, _, _)
CountBefore(data, di, s) ==
  IF di < Len(data) /\ data[di + 1].start < s THEN 1 + CountBefore(data, di + 1, s) ELSE 0

\* GiveTreeNode._traverseData with the criterion `start === s`
RECURSIVE CountAt(_, _, _)
CountAt(data, di, s) ==
  IF di < Len(data) /\ data[di + 1].start = s THEN 1 + CountAt(data, di + 1, s) ELSE 0

MaxEnd(list, init) ==
  IF list = <<>> THEN init
  ELSE LET m == CHOOSE m \in {list[k].end : k \in DOMAIN list} :
                   \A k \in DOMAIN list : list[k].end <= m
       IN Max2(m, init)

\* GiveTreeNode._compareData(dataEx, dataIn)
CompareData(dataEx, dataIn) == EqualTo(dataIn, dataEx) \/ dataIn = dataEx

\* a startList that is replaced by the slice whatever props.addNew is
NewStartListReplace(old, slice, addNew) == SortList(slice)

\* the startList that DataNode.insert stores; `slice` is the part of the
\* batch that starts at the bin's start
NewStartList(old, slice, addNew) ==
  IF ~addNew THEN SortList(slice)
  ELSE SortList(old \o SelectSeq(slice,
         LAMBDA d : ~\E k \in DOMAIN old : CompareData(old[k], d)))

\* DataNode.insert with props.dataIndex = di: the bin, the context, and the
\* new props.dataIndex
BinInsert(bin, cx, di, addNew) ==
  Let(di + CountBefore(cx.data, di, bin.start), LAMBDA c1 :
  Let(c1 + CountAt(cx.data, c1, bin.start), LAMBDA c2 :
  Let(SelectSeq(cx.cl \o SubSeq(cx.data, di + 1, c1), LAMBDA e : e.end > bin.start),
      LAMBDA cl1 :
  Let(NewStartList(bin.startList, SubSeq(cx.data, c1 + 1, c2), addNew), LAMBDA sl :
    [bin |-> [bin EXCEPT !.continuedList = cl1, !.startList = sl],
     cx |-> [cx EXCEPT
               !.cl = cl1 \o sl,
               !.log = cx.log \o SubSeq(cx.data, di + 1, c2),
               !.post = Region(bin.start,
                          MaxEnd(IF addNew
                                   THEN SelectSeq(SubSeq(cx.data, c1 + 1, c2), LAMBDA d :
                                          ~\E k \in DOMAIN bin.startList :
                                              CompareData(bin.startList[k], d))
                                   ELSE sl,
                                 MaxEnd(cl1, bin.start)))],
     di |-> c2]))))

\* a mergeAfter that takes nothing but a bin
ChildMergableBinOnly(front, back) ==
  IF ~IsBin(front) \/ ~IsBin(back) THEN [ok |-> FALSE, back |-> back]
  ELSE IF Len(back.startList) <= 0 THEN [ok |-> TRUE, back |-> back]
  ELSE [ok |-> FALSE,
        back |-> [back EXCEPT !.continuedList =
                    ContinuedWalk(back.continuedList,
                                  SelectSeq(front.continuedList \o front.startList,
                                            LAMBDA e : e.end > back.start), 1, 1)]]

\* DataNode.mergeAfter inside GiveNonLeafNode._childMergable: whether the two
\* slots merge, and the back slot (its continuedList may have been updated).
\* The method is static, so its this.emptyChildValue is undefined and two
\* null slots do not merge; two false slots do.
ChildMergable(front, back) ==
  IF front.kind = "false" /\ back.kind = "false" THEN [ok |-> TRUE, back |-> back]
  ELSE IF ~IsBin(front) THEN [ok |-> FALSE, back |-> back]
  ELSE IF back.kind = "false" \/ (IsBin(back) /\ Len(back.startList) <= 0)
    THEN [ok |-> TRUE, back |-> back]
  ELSE IF IsBin(back)
    THEN [ok |-> FALSE,
          back |-> UpdateContinuedList(back, front.continuedList \o front.startList).bin]
  ELSE [ok |-> FALSE, back |-> back]

\* A node of reverseDepth 0 below a parent is worked on together with what
\* its links reach: prev.last is this.prev.lastChild and prev.end is
\* this.prev.end, next.first is this.next.firstChild and next.start is
\* this.next.start; has tells whether the link is set.  The root has no
\* such fields: its links are null.
IsLinked(node) == "prev" \in DOMAIN node
NoLink == [has |-> FALSE]

\* the first half of GiveNonLeafNode._mergeChild(index, mergeNext, true):
\* the slot i (1-based) is merged into the one before it, which for the
\* first slot is the last slot of the previous sibling
MergeFront(node, i) ==
  IF i > 1 /\ i <= ChildNum(node)
    THEN Let(ChildMergable(node.values[i - 1], node.values[i]), LAMBDA f :
           [node |-> IF f.ok
                       THEN [node EXCEPT !.keys = RemoveAt(node.keys, i),
                                         !.values = RemoveAt(node.values, i)]
                       ELSE [node EXCEPT !.values[i] = f.back],
            mergedFront |-> f.ok])
  ELSE IF i = 1 /\ IsLinked(node) /\ ChildNum(node) > 1 /\ node.prev.has
    THEN Let(ChildMergable(node.prev.last, node.values[1]), LAMBDA f :
           [node |-> IF f.ok
                       THEN [node EXCEPT !.keys = Tail(node.keys),
                                         !.values = Tail(node.values),
                                         !.prev.end = node.keys[2]]
                       ELSE [node EXCEPT !.values[1] = f.back],
            mergedFront |-> f.ok])
    ELSE [node |-> node, mergedFront |-> FALSE]

\* the second half of GiveNonLeafNode._mergeChild(index, true, true): the
\* slot after index i is merged into the slot at i; the last slot of a node
\* is moved into the next sibling in the place of its first slot
MergeBack(node, i) ==
  IF i >= 1 /\ i < ChildNum(node)
    THEN Let(ChildMergable(node.values[i], node.values[i + 1]), LAMBDA g :
           IF g.ok
             THEN [node EXCEPT !.keys = RemoveAt(node.keys, i + 1),
                               !.values = RemoveAt(node.values, i + 1)]
             ELSE [node EXCEPT !.values[i + 1] = g.back])
  ELSE IF i = ChildNum(node) /\ IsLinked(node) /\ node.next.has /\ ChildNum(node) > 1
    THEN Let(ChildMergable(node.values[i], node.next.first), LAMBDA g :
           IF g.ok
             THEN [node EXCEPT !.keys = SubSeq(node.keys, 1, i),
                               !.values = SubSeq(node.values, 1, i - 1),
                               !.next.start = node.keys[i],
                               !.next.first = node.values[i]]
             ELSE [node EXCEPT !.next.first = g.back])
    ELSE node

\* GiveNonLeafNode._mergeChild(index, mergeNext, true) on the root: i is the
\* 1-based slot, which is not moved after a merge with the slot before it
MergeChild(node, i, mergeNext) ==
  Let(MergeFront(node, i), LAMBDA f :
    [node |-> IF mergeNext THEN MergeBack(f.node, i) ELSE f.node,
     mergedFront |-> f.mergedFront])

\* GiveNonLeafNode._splitChild(index, newKey, newLatterChild) at reverseDepth
\* 0; latter is NoSlot when the argument is not given
NoSlot == [kind |-> "undefined", start |-> 0, startList |-> <<>>, continuedList |-> <<>>]
SplitChild(node, i, newKey, latter, local) ==
  LET lat == IF IsBin(node.values[i]) /\ latter = NoSlot
               THEN (IF local THEN EmptyChildValue(local) ELSE NoSlot)
               ELSE latter
  IN IF IsBin(node.values[i]) /\ latter = NoSlot /\ ~local
       THEN [node |-> node, err |-> "CannotSplit"]
       ELSE [node |-> [node EXCEPT
                         !.keys = InsertAt(node.keys, i + 1, newKey),
                         !.values = InsertAt(node.values, i + 1,
                                      IF lat = NoSlot THEN node.values[i] ELSE lat)],
             err |-> ""]

\* the branch of the while loop of SampleNode._addLeafRecords that stores a
\* new bin: n1 is the root, i2 the slot that starts at the current position
LeafStepBin(n1, cx, i2, di, addNew) ==
  Let(BinInsert(Bin(n1.keys[i2], <<>>, <<>>), cx, di, addNew), LAMBDA b :
    [node |-> [n1 EXCEPT !.values[i2] = IF BinIsEmpty(b.bin) THEN FalseSlot ELSE b.bin],
     cx |-> b.cx, di |-> b.di])

\* one turn of the while loop of SampleNode._addLeafRecords past the split
LeafStep(n1, cx, i2, di, addNew) ==
  IF Len(cx.cl) > 0 \/ (di < Len(cx.data) /\ cx.data[di + 1].start <= n1.keys[i2])
    THEN LeafStepBin(n1, cx, i2, di, addNew)
    ELSE [node |-> [n1 EXCEPT !.values[i2] = FalseSlot], cx |-> cx, di |-> di]

\* a turn of the while loop of SampleNode._addLeafRecords that starts before
\* the first slot of the node (currIndex is -1 after the first slot was
\* merged into the previous sibling): keys[-1] is undefined, so no slot is
\* split and no entry is consumed.  With a continuedList a bin without a
\* start is made, whose insert builds a ChromRegion without coordinates
\* (taken to throw); without one chrRange.start is set to the start of the
\* same entry again, for ever.
Stuck == "NeverReturns"
LeafStepOutside(node, cx, di) ==
  [node |-> node, i |-> 0, di |-> di,
   cx |-> [cx EXCEPT !.err = IF Len(cx.cl) > 0 THEN "InvalidRegion" ELSE Stuck]]

\* the while loop of SampleNode._addLeafRecords: i is the 1-based slot
\* (currIndex), di is props.dataIndex, cur is chrRange.start
RECURSIVE LeafLoop(_, _, _, _, _, _, _)
LeafLoop(node, cx, i, di, cur, rangeEnd, addNew) ==
  IF ~(cur < rangeEnd) THEN [node |-> node, cx |-> cx, i |-> i, di |-> di]
  ELSE IF SkipTo(node, i, cur) = 0 THEN LeafStepOutside(node, cx, di)
  ELSE
    Let(SkipTo(node, i, cur), LAMBDA i1 :
    Let(IF node.keys[i1] < cur THEN i1 + 1 ELSE i1, LAMBDA i2 :
    Let(LeafStep(IF node.keys[i1] < cur
                   THEN SplitChild(node, i1, cur, FalseSlot, addNew).node
                   ELSE node,
                 cx, i2, di, addNew), LAMBDA s :
    Let(MergeChild(s.node, i2, FALSE), LAMBDA m :
      LeafLoop(m.node, s.cx, IF m.mergedFront THEN i2 - 1 ELSE i2, s.di,
               IF s.di < Len(s.cx.data) /\ s.cx.data[s.di + 1].start < rangeEnd
                 THEN s.cx.data[s.di + 1].start ELSE rangeEnd,
               rangeEnd, addNew)))))

\* the end of SampleNode._addLeafRecords without its data.splice: the batch
\* is left as it was
LeafEndKeepsData(l, r) ==
  [node |-> MergeChild(l.node, l.i, TRUE).node,
   cx |-> [l.cx EXCEPT
             !.cl = SelectSeq(l.cx.cl \o SubSeq(l.cx.data, 1, l.di),
                              LAMBDA e : e.end > r.end)]]

\* the end of SampleNode._addLeafRecords: l is the state the loop ends in
LeafEnd(l, r) ==
  [node |-> MergeChild(l.node, l.i, TRUE).node,
   cx |-> [l.cx EXCEPT
             !.cl = SelectSeq(l.cx.cl \o SubSeq(l.cx.data, 1, l.di),
                              LAMBDA e : e.end > r.end),
             !.data = SubSeq(l.cx.data, l.di + 1, Len(l.cx.data))]]

\* SampleNode._addLeafRecords
AddLeafRecords(node, cx, r, addNew) ==
  Let(SkipTo(node, 1, r.start), LAMBDA i0 :
  Let(IF node.keys[i0] < r.start THEN i0 + 1 ELSE i0, LAMBDA i1 :
  Let(IF node.keys[i0] < r.start THEN SplitChild(node, i0, r.start, NoSlot, addNew)
      ELSE [node |-> node, err |-> ""], LAMBDA a :
  Let(IF a.err = "" /\ a.node.keys[i1 + 1] > r.end
        THEN SplitChild(a.node, i1, r.end, NoSlot, addNew) ELSE a, LAMBDA b :
    IF b.err # "" THEN [node |-> node, cx |-> [cx EXCEPT !.err = b.err]]
    ELSE LeafEnd(LeafLoop(b.node, cx, i1, 0, r.start, r.end, addNew), r)))))

\* SampleNode._restructureImmediateChildren and _restructureRoot on a root of
\* reverseDepth 0: the root is kept while it has at most branchingFactor
\* children
RestructureRoot(node) == node

\* GiveNonLeafNode.reverseDepth: 0 for a node that holds slots
RECURSIVE ReverseDepth(_)
ReverseDepth(node) ==
  IF IsNode(node.values[1]) THEN 1 + ReverseDepth(node.values[1]) ELSE 0

\* The child c (1-based) of a node of reverseDepth 1 together with what its
\* links reach, and the parent after the child and the siblings it reached
\* through its links have been written back.
Focus(parent, c) ==
  [keys |-> parent.values[c].keys,
   values |-> parent.values[c].values,
   prev |-> IF c > 1
              THEN Let(parent.values[c - 1], LAMBDA sib :
                     [has |-> TRUE, last |-> sib.values[Len(sib.values)],
                      end |-> sib.keys[Len(sib.keys)]])
              ELSE NoLink,
   next |-> IF c < ChildNum(parent)
              THEN Let(parent.values[c + 1], LAMBDA sib :
                     [has |-> TRUE, first |-> sib.values[1], start |-> sib.keys[1]])
              ELSE NoLink]
Unfocus(parent, c, child) ==
  [parent EXCEPT !.values = AsArray(
     [k \in DOMAIN parent.values |->
        IF k = c THEN [keys |-> child.keys, values |-> child.values]
        ELSE IF k = c - 1 /\ child.prev.has
          THEN [parent.values[k] EXCEPT !.keys[Len(parent.values[k].keys)] = child.prev.end]
        ELSE IF k = c + 1 /\ child.next.has
          THEN [parent.values[k] EXCEPT !.keys[1] = child.next.start,
                                        !.values[1] = child.next.first]
        ELSE parent.values[k]])]

\* GiveNonLeafNode.truncateChrRange(chrRange, true, true)
TruncateBoth(node, r) ==
  Region(Max2(r.start, node.keys[1]), Min2(r.end, node.keys[Len(node.keys)]))

\* this.keys = this.values.map(node => node.start), then the end of the last
\* child is pushed (GiveNonLeafNode.insert)
KeysOfChildren(node) ==
  AsArray([k \in 1..(Len(node.values) + 1) |->
             IF k <= Len(node.values) THEN node.values[k].keys[1]
             ELSE node.values[k - 1].keys[Len(node.values[k - 1].keys)]])

RECURSIVE NodeInsert(_, _, _, _)

\* SampleNode._addNonLeafRecords on a node of reverseDepth 1: the range is
\* cut at the keys of the node and each section is inserted into its child;
\* i is currIndex (1-based), cur is chrRange.start
RECURSIVE AddNonLeafRecords(_, _, _, _, _, _)
AddNonLeafRecords(node, cx, i, cur, rangeEnd, addNew) ==
  IF ~(cur < rangeEnd) THEN [node |-> node, cx |-> cx]
  ELSE Let(SkipTo(node, i, cur), LAMBDA c :
       Let(Region(cur, IF node.keys[c + 1] < rangeEnd THEN node.keys[c + 1]
                       ELSE rangeEnd), LAMBDA section :
       Let(NodeInsert(Focus(node, c), cx, TruncateBoth(node.values[c], section), addNew),
           LAMBDA n :
         IF n.cx.err # "" THEN [node |-> Unfocus(node, c, n.node), cx |-> n.cx]
         ELSE AddNonLeafRecords(Unfocus(node, c, n.node), n.cx, c + 1, section.end,
                                rangeEnd, addNew))))

\* the records are added to the node: _addLeafRecords at reverseDepth 0,
\* else _addNonLeafRecords, after which the keys are taken from the children
AddRecords(node, cx, r, addNew) ==
  IF ReverseDepth(node) > 0
    THEN Let(AddNonLeafRecords(node, cx, 1, r.start, r.end, addNew), LAMBDA a :
           IF a.cx.err # "" THEN a
           ELSE [node |-> [a.node EXCEPT !.keys = KeysOfChildren(a.node)], cx |-> a.cx])
    ELSE AddLeafRecords(node, cx, r, addNew)

\* GiveNonLeafNode.insert: r lies inside the node's range
NodeInsert(node, cx, r, addNew) ==
  Let(AddRecords(node, cx, r, addNew), LAMBDA a :
    IF a.cx.err # "" THEN a
    ELSE IF a.cx.post = NoRegion THEN [node |-> RestructureRoot(a.node), cx |-> a.cx]
    ELSE Let(GetMinus(a.cx.post, Region(r.end, r.end)), LAMBDA pieces :
           [node |-> RestructureRoot(
                       NodeTraverse(a.node, TravProps("post", TRUE, FALSE, -1, -1),
                                    TravState(pieces[Len(pieces)], FALSE, <<>>,
                                              a.cx.cl)).node),
            cx |-> [a.cx EXCEPT !.post = pieces[Len(pieces)]]]))

\* the end of DataNode.preInsertionOp: t is the state the synchronising
\* traversal ends in, data the batch without the entries moved to the list
PreInsertionEnd(cx, data, t, hasCallback) ==
  IF t.err # "" THEN [cx EXCEPT !.data = data, !.cl = t.ext, !.err = t.err]
  ELSE [cx EXCEPT !.data = data, !.cl = t.ext \o t.pre,
                  !.log = IF hasCallback THEN cx.log \o t.pre ELSE cx.log]

\* DataNode.preInsertionOp
PreInsertionOp(node, cx, r, hasCallback) ==
  Let(SortList(cx.cl \o SelectSeq(cx.data,
                 LAMBDA d : d.start < r.start /\ Overlaps(d, r))), LAMBDA pre :
  Let(GetMinus(CoveringRange(node), r), LAMBDA minus :
    PreInsertionEnd(cx, SelectSeq(cx.data, LAMBDA d : ~(d.start < r.start)),
                    IF minus # <<>>
                      THEN TreeTraverse(node, minus[1],
                                        TravProps("sync", TRUE, FALSE, -1, -1),
                                        FALSE, pre, <<>>).ts
                      ELSE TravState(r, FALSE, pre, <<>>),
                    hasCallback)))

\* GiveTree._insertSingleRange
InsertSingleRange(node, cx, r, local, hasCallback) ==
  Let(PreInsertionOp(node, cx, TruncateStart(node, r), hasCallback), LAMBDA c1 :
    IF c1.err # "" THEN [node |-> node, cx |-> c1]
    ELSE Let(NodeInsert(node, c1, TruncateStart(node, r), local), LAMBDA n :
           [node |-> n.node,
            cx |-> IF hasCallback THEN n.cx ELSE [n.cx EXCEPT !.log = <<>>]]))

\* the history of an insert: _insertSingleRange was called on range and
\* ended with err, before the calls that gave res
Tried(range, err, res) ==
  [res EXCEPT !.tried = <<[range |-> range, err |-> err]>> \o @]

\* the forEach over the uncached ranges in GiveTree.insert without its
\* try ... catch: the first range whose insertion raises ends the loop
RECURSIVE InsertRangesUncaught(_, _, _, _, _, _)
InsertRangesUncaught(node, cx, ranges, k, hasProps, errs) ==
  IF k > Len(ranges) \/ errs # <<>>
    THEN [node |-> node, cx |-> cx, errs |-> errs, tried |-> <<>>]
  ELSE Let(InsertSingleRange(node,
                             IF hasProps THEN [cx EXCEPT !.err = ""]
                             ELSE [InsCtx(cx.data, <<>>) EXCEPT !.log = cx.log],
                             ranges[k], FALSE, hasProps), LAMBDA r :
         Tried(ranges[k], r.cx.err,
               InsertRangesUncaught(r.node, r.cx, ranges, k + 1, hasProps,
                                    IF r.cx.err # "" THEN Append(errs, ranges[k])
                                    ELSE errs)))

\* the forEach over the uncached ranges in GiveTree.insert; errs collects the
\* ranges whose insertion raised
RECURSIVE InsertRanges(_, _, _, _, _, _)
InsertRanges(node, cx, ranges, k, hasProps, errs) ==
  IF k > Len(ranges) THEN [node |-> node, cx |-> cx, errs |-> errs, tried |-> <<>>]
  ELSE Let(InsertSingleRange(node,
                             IF hasProps THEN [cx EXCEPT !.err = ""]
                             ELSE [InsCtx(cx.data, <<>>) EXCEPT !.log = cx.log],
                             ranges[k], FALSE, hasProps), LAMBDA r :
         Tried(ranges[k], r.cx.err,
               InsertRanges(r.node, r.cx, ranges, k + 1, hasProps,
                            IF r.cx.err # "" THEN Append(errs, ranges[k]) ELSE errs)))

RECURSIVE UncachedOf(_, _, _, _)
UncachedOf(node, ranges, k, res) ==
  IF k > Len(ranges) THEN res
  ELSE UncachedOf(node, ranges, k + 1, GetUncachedRange(FALSE, node, ranges[k], res))

\* GiveTree.insert(data, chrRanges, props): chrRanges is a sequence of ranges,
\* empty when the argument is not given; hasProps tells whether a props
\* object (with a dataCallback) is given, cl is its continuedList
TreeInsert(local, node, data, chrRanges, hasProps, cl) ==
  Let(SortList(data), LAMBDA sorted :
    IF local
      THEN Let(InsertSingleRange(node, InsCtx(sorted, cl), CoveringRange(node),
                                 TRUE, hasProps), LAMBDA r :
             [node |-> r.node, cx |-> r.cx,
              errs |-> IF r.cx.err # "" THEN <<CoveringRange(node)>> ELSE <<>>,
              tried |-> <<[range |-> CoveringRange(node), err |-> r.cx.err]>>])
      ELSE InsertRanges(node, InsCtx(sorted, cl),
                        UncachedOf(node,
                                   IF chrRanges = <<>>
                                     THEN [k \in DOMAIN sorted |->
                                             Region(sorted[k].start, sorted[k].end)]
                                     ELSE chrRanges,
                                   1, <<>>),
                        1, hasProps, <<>>))

\* ------------------------------------------------------------------ removal
\* DataNode.removeData that does not look at props.exactMatch
BinRemoveDataAnyMatch(bin, data, exactMatch) ==
  LET sl == IF data.start = bin.start THEN <<>> ELSE bin.startList
      cl == SelectSeq(bin.continuedList, LAMBDA d : ~(d.start = data.start))
      b == Bin(bin.start, sl, cl)
  IN IF BinIsEmpty(b) THEN FalseSlot ELSE b

\* DataNode.removeData(data, props): the bin left, or FalseSlot when the bin
\* reports that it shall be removed (it is empty)
BinRemoveData(bin, data, exactMatch) ==
  LET sl == IF data.start = bin.start
              THEN SelectSeq(bin.startList,
                     LAMBDA d : ~(~exactMatch \/ CompareData(data, d)))
              ELSE bin.startList
      cl == SelectSeq(bin.continuedList,
              LAMBDA d : ~(d.start = data.start /\ (~exactMatch \/ CompareData(data, d))))
      b == Bin(bin.start, sl, cl)
  IN IF BinIsEmpty(b) THEN FalseSlot ELSE b

\* GiveNonLeafNode.clear that converts to false whatever it is given
NodeClearToFalse(node, convertTo, local) ==
  [keys |-> <<node.keys[1], node.keys[Len(node.keys)]>>, values |-> <<FalseSlot>>]

\* GiveNonLeafNode.clear(convertTo): convertTo is a slot value, NullSlot for
\* null or undefined
NodeClear(node, convertTo, local) ==
  [keys |-> <<node.keys[1], node.keys[Len(node.keys)]>>,
   values |-> <<IF convertTo = FalseSlot THEN FalseSlot ELSE EmptyChildValue(local)>>]

\* GiveNonLeafNode.removeData on the root (reverseDepth 0)
NodeRemoveData(node, data, exactMatch, convertTo, local) ==
  IF node.keys[1] = data.start /\ node.keys[Len(node.keys)] = data.end /\ ~exactMatch
    THEN NodeClear(node, convertTo, local)
  ELSE Let(SkipTo(node, 1, data.start), LAMBDA i :
         IF i <= ChildNum(node) /\ IsBin(node.values[i])
           THEN Let(BinRemoveData(node.values[i], data, exactMatch), LAMBDA b :
                  MergeChild([node EXCEPT !.values[i] = IF IsBin(b) THEN b ELSE convertTo],
                             i, TRUE).node)
           ELSE node)

\* GiveTree.remove(data, props): convertTo is NoSlot when props.convertTo is
\* not given
TreeRemove(local, node, data, exactMatch, convertTo) ==
  LET conv == IF convertTo = NoSlot THEN NullSlot ELSE convertTo
  IN RestructureRoot(NodeRemoveData(node, data, exactMatch, conv, local))

\* clear() of the tree: the root is reset to a single filler slot
TreeClear(local, node) == RestructureRoot(NodeClear(node, NoSlot, local))

\* ---------------------------------------------------------------- balancing
\* GiveTreeNode.length of a node: end - start
NodeLength(node) == node.keys[Len(node.keys)] - node.keys[1]

\* the for loop of SampleNode._splitChild: the last children of the child at
\* index (1-based) are chopped off into new siblings, sibsLeft times
RECURSIVE ChopSiblings(_, _, _)
ChopSiblings(node, index, sibsLeft) ==
  IF sibsLeft <= 0 THEN node
  ELSE Let(node.values[index], LAMBDA child :
       Let(ChildNum(child) \div (sibsLeft + 1), LAMBDA sibNumOfChildren :
       Let([keys |-> SubSeq(child.keys, 1, Len(child.keys) - sibNumOfChildren),
            values |-> SubSeq(child.values, 1, ChildNum(child) - sibNumOfChildren)],
           LAMBDA former :
         ChopSiblings(
           [keys |-> InsertAt(node.keys, index + 1, former.keys[Len(former.keys)]),
            values |-> InsertAt([node.values EXCEPT ![index] = former], index + 1,
                         [keys |-> SubSeq(child.keys, Len(child.keys) - sibNumOfChildren,
                                          Len(child.keys)),
                          values |-> SubSeq(child.values,
                                            ChildNum(child) - sibNumOfChildren + 1,
                                            ChildNum(child))])],
           index, sibsLeft - 1))))

\* The sibling links of the nodes of reverseDepth 0.  The setters of next and
\* prev and _fixChildLinks link every such node to the node before it and to
\* the node after it under the same parent, and the first and the last one
\* to null; these links are not written down.  The only other link there is
\* is written down, as the field nextOfLast of the root: the _next of the
\* last node of reverseDepth 0 (of the root itself when the root is that
\* node) when it is a node that has been taken out of the tree.
TakenOut == "takenOut"
LinksToTakenOut(node) == "nextOfLast" \in DOMAIN node
KeepsNextOfLast(node) ==
  [keys |-> node.keys, values |-> node.values, nextOfLast |-> TakenOut]

\* SampleNode._splitChild(index) of a node of reverseDepth > 0 in a tree of
\* branching factor b; the new siblings are linked to each other, to the
\* child that was split and to the child after it (null after the last one)
SampleSplitChild(node, index, b) ==
  IF NodeLength(node.values[index]) <= b THEN node
  ELSE Let(ChopSiblings(node, index, ((ChildNum(node.values[index]) * 2) \div b) - 1),
           LAMBDA split :
         IF LinksToTakenOut(node) /\ index < ChildNum(node) /\ ReverseDepth(node) > 0
           THEN KeepsNextOfLast(split) ELSE split)

\* a root that is grown by keeping the first slot of the old root and
\* putting the other slots into a node next to it
GrowRootBesideSlot(oldRoot, b) ==
  [keys |-> <<oldRoot.keys[1], oldRoot.keys[2], oldRoot.keys[Len(oldRoot.keys)]>>,
   values |-> <<oldRoot.values[1],
                [keys |-> Tail(oldRoot.keys), values |-> Tail(oldRoot.values)]>>]

\* the first do-while loop of SampleNode._restructureRoot: a new root is put
\* over the old one, which is split
RECURSIVE GrowRoot(_, _)
GrowRoot(oldRoot, b) ==
  Let(SampleSplitChild([keys |-> <<oldRoot.keys[1], oldRoot.keys[Len(oldRoot.keys)]>>,
                        values |-> <<oldRoot>>], 1, b), LAMBDA newRoot :
    IF ChildNum(newRoot) > b THEN GrowRoot(newRoot, b) ELSE newRoot)

\* the second do-while loop of SampleNode._restructureRoot: the first
\* descendant with several children, or of reverseDepth 0, becomes the root
\* and keeps its _next (clear of the old root sets the _prev of that node)
RECURSIVE ShrinkRoot(_)
ShrinkRoot(oldRoot) ==
  Let(IF LinksToTakenOut(oldRoot) THEN KeepsNextOfLast(oldRoot.values[1])
      ELSE oldRoot.values[1], LAMBDA newRoot :
    IF ChildNum(newRoot) <= 1 /\ ReverseDepth(newRoot) > 0
      THEN ShrinkRoot(newRoot) ELSE newRoot)

\* SampleNode._restructureRoot that never replaces the root by its sole child
SampleRestructureRootNoShrink(node, b) ==
  IF ChildNum(node) > b THEN GrowRoot(node, b) ELSE node

\* SampleNode._restructureRoot on the root
SampleRestructureRoot(node, b) ==
  IF ChildNum(node) > b THEN GrowRoot(node, b)
  ELSE IF ChildNum(node) <= 1 /\ ReverseDepth(node) > 0 THEN ShrinkRoot(node)
  ELSE node

\* SampleNode._extendBoundary(convertTo, start, null) of a node of
\* reverseDepth 0: the first slot is stretched when it is the filler, else a
\* filler slot is put before it
ExtendStart(node, convertTo, start) ==
  IF node.values[1] = convertTo
    THEN [node EXCEPT !.keys[1] = start]
    ELSE [node EXCEPT !.keys = <<start>> \o node.keys,
                      !.values = <<convertTo>> \o node.values]

\* SampleNode._extendBoundary(convertTo, null, end) of a node of
\* reverseDepth 0
ExtendEnd(node, convertTo, end) ==
  IF node.values[Len(node.values)] = convertTo
    THEN [node EXCEPT !.keys[Len(node.keys)] = end]
    ELSE [node EXCEPT !.keys = Append(node.keys, end),
                      !.values = Append(node.values, convertTo)]

\* a node with a sole slot that is null or false
IsEmptyNode(node) == ChildNum(node) = 1 /\ node.values[1] \in {NullSlot, FalseSlot}

\* SampleNode.mergeAfter(node) of two nodes of reverseDepth 0 in a tree of
\* branching factor b: ok tells whether something truthy is returned, front
\* is this after the call
NodeMergeAfter(front, back, b) ==
  IF ~(IsNode(back) /\ front.keys[Len(front.keys)] = back.keys[1])
    THEN [ok |-> FALSE, front |-> front]
  ELSE IF IsEmptyNode(front)
    THEN [ok |-> TRUE, front |-> ExtendStart(back, front.values[1], front.keys[1])]
  ELSE IF IsEmptyNode(back)
    THEN [ok |-> TRUE,
          front |-> ExtendEnd(front, back.values[1], back.keys[Len(back.keys)])]
  ELSE IF ChildNum(front) + ChildNum(back) <= b
    THEN [ok |-> TRUE, front |-> [keys |-> front.keys \o Tail(back.keys),
                                  values |-> front.values \o back.values]]
  ELSE [ok |-> TRUE, front |-> front]

\* GiveNonLeafNode._mergeChild(index) of a node of reverseDepth > 0: the
\* child at index (1-based, index > 1) is taken out when the child before
\* it answers mergeAfter with something truthy; _fixChildLinks(index - 1)
\* then links the child before it to the child that follows, and leaves its
\* _next as it is when no child follows (_getChildNext throws)
NodeMergeChild(node, index, b) ==
  IF ~(index > 1 /\ index <= ChildNum(node) /\ IsNode(node.values[index - 1]))
    THEN node
  ELSE Let(NodeMergeAfter(node.values[index - 1], node.values[index], b), LAMBDA m :
         IF m.ok
           THEN Let([node EXCEPT !.keys = RemoveAt(node.keys, index),
                                 !.values = RemoveAt([node.values EXCEPT
                                                        ![index - 1] = m.front], index)],
                    LAMBDA spliced :
                  IF index = ChildNum(node) THEN KeepsNextOfLast(spliced) ELSE spliced)
           ELSE node)

\* SampleNode._redistributeGrandChildren(index): the children at index - 1
\* and index (1-based) share their slots evenly
RedistributeGrandChildren(node, index, b) ==
  Let(node.values[index - 1], LAMBDA former :
  Let(node.values[index], LAMBDA latter :
  Let(Min2((ChildNum(former) + ChildNum(latter)) \div 2, b) - ChildNum(former),
      LAMBDA deltaNum :
  Let(IF deltaNum > 0
        THEN [former |-> [keys |-> former.keys \o SubSeq(latter.keys, 2, deltaNum + 1),
                          values |-> former.values \o SubSeq(latter.values, 1, deltaNum)],
              latter |-> [keys |-> SubSeq(latter.keys, deltaNum + 1, Len(latter.keys)),
                          values |-> SubSeq(latter.values, deltaNum + 1,
                                            Len(latter.values))]]
      ELSE IF deltaNum < 0
        THEN [former |-> [keys |-> SubSeq(former.keys, 1, Len(former.keys) + deltaNum),
                          values |-> SubSeq(former.values, 1,
                                            Len(former.values) + deltaNum)],
              latter |-> [keys |-> SubSeq(former.keys, Len(former.keys) + deltaNum,
                                          Len(former.keys) - 1) \o latter.keys,
                          values |-> SubSeq(former.values,
                                            Len(former.values) + deltaNum + 1,
                                            Len(former.values)) \o latter.values]]
      ELSE [former |-> [keys |-> <<>>, values |-> <<>>],
            latter |-> [keys |-> latter.keys,
                        values |-> former.values \o latter.values]],
      LAMBDA moved :
    [node EXCEPT !.values[index - 1] = moved.former,
                 !.values[index] = moved.latter,
                 !.keys[index] = moved.latter.keys[1]]))))

\* the for loop of SampleNode._restructureImmediateChildren on the root of
\* reverseDepth > 0, from the child i (1-based) on; when _mergeChild merges
\* nothing the loop comes back to the same child for ever, which
\* NeverBalanced stands for
NeverBalanced == [keys |-> <<>>, values |-> <<>>]
RECURSIVE RestructureChildren(_, _, _)
RestructureChildren(node, i, b) ==
  IF i > ChildNum(node) THEN node
  ELSE Let(IF i < ChildNum(node) THEN i + 1 ELSE i, LAMBDA sibNext :
       Let(IF i < ChildNum(node) THEN i ELSE i - 1, LAMBDA sibPrev :
         IF ChildNum(node.values[i]) * 2 < b
           THEN IF ChildNum(node) <= 1 THEN RestructureChildren(node, i + 1, b)
                ELSE IF ChildNum(node.values[sibPrev]) + ChildNum(node.values[sibNext]) > b
                  THEN RestructureChildren(RedistributeGrandChildren(node, sibNext, b),
                                           i + 1, b)
                ELSE Let(NodeMergeChild(node, sibNext, b), LAMBDA merged :
                       IF merged = node THEN NeverBalanced
                       ELSE RestructureChildren(merged, i, b))
         ELSE IF ChildNum(node.values[i]) > b
           THEN IF ChildNum(node) > 1 /\
                   ChildNum(node.values[sibPrev]) + ChildNum(node.values[sibNext]) < b * 2
                  THEN RestructureChildren(RedistributeGrandChildren(node, sibNext, b),
                                           i + 1, b)
                  ELSE Let(SampleSplitChild(node, i, b), LAMBDA split :
                         RestructureChildren(split, i + 1 + ChildNum(split) - ChildNum(node),
                                             b))
         ELSE RestructureChildren(node, i + 1, b)))

\* SampleNode._restructureImmediateChildren() on the root: the root it
\* returns, or err = Stuck when it does not return
SampleRestructureImmediateChildren(node, b) ==
  Let(IF ReverseDepth(node) > 0 THEN RestructureChildren(node, 1, b) ELSE node,
      LAMBDA done :
    IF done = NeverBalanced THEN [node |-> node, err |-> Stuck]
    ELSE [node |-> SampleRestructureRoot(done, b), err |-> ""])

\* GiveNonLeafNode.firstLeaf
RECURSIVE FirstLeaf(_)
FirstLeaf(node) == IF IsNode(node.values[1]) THEN FirstLeaf(node.values[1]) ELSE node.values[1]

\* GiveNonLeafNode.removeData(data, props) of a node of reverseDepth 1 in a
\* tree of branching factor b: the child that holds data.start removes the
\* data, reaching its siblings through its links, and is replaced by
\* props.convertTo when it reports that it shall go; then a child is merged
\* into the one before it
NonLeafRemoveData(node, data, exactMatch, convertTo, local, b) ==
  Let(SkipTo(node, 1, data.start), LAMBDA i :
  IF i > ChildNum(node) THEN node ELSE
  Let(node.values[i], LAMBDA child :
  Let(IF child.keys[1] = data.start /\ child.keys[Len(child.keys)] = data.end /\ ~exactMatch
        THEN [node EXCEPT !.values[i] = convertTo]
        ELSE Unfocus(node, i, NodeRemoveData(Focus(node, i), data, exactMatch, convertTo,
                                             local)), LAMBDA removed :
    IF i < ChildNum(removed) /\ (i <= 1 \/ FirstLeaf(removed.values[i + 1]) = convertTo)
      THEN NodeMergeChild(removed, i + 1, b)
    ELSE IF i > 1 THEN NodeMergeChild(removed, i, b)
    ELSE IF IsNode(removed.values[i]) /\ IsEmptyNode(removed.values[i]) /\
            removed.values[i].values[1] = FalseSlot
      THEN NodeClear(removed, convertTo, local)
    ELSE removed)))

\* the children of a node of reverseDepth > 0 restructure themselves
\* (GiveNonLeafNode.restructure): a child that is null or false has no such
\* method, the error is swallowed and the loop starts again, for ever
ChildrenRestructure(node) ==
  ReverseDepth(node) = 0 \/ \A i \in DOMAIN node.values : IsNode(node.values[i])

\* GiveTree.remove(data, props) of a tree of branching factor b:
\* this._root.remove(data, props), then this._root.restructure()
SampleTreeRemove(local, node, data, exactMatch, convertTo, b) ==
  Let(IF convertTo = NoSlot THEN NullSlot ELSE convertTo, LAMBDA conv :
  Let(IF node.keys[1] = data.start /\ node.keys[Len(node.keys)] = data.end /\ ~exactMatch
        THEN NodeClear(node, conv, local)
      ELSE IF ReverseDepth(node) > 0
        THEN NonLeafRemoveData(node, data, exactMatch, conv, local, b)
      ELSE NodeRemoveData(node, data, exactMatch, conv, local), LAMBDA removed :
    IF ~ChildrenRestructure(removed) THEN [node |-> removed, err |-> Stuck]
    ELSE SampleRestructureImmediateChildren(removed, b)))

\* ---------------------------------------------------------------- withering
\* null for this._currGen and for the two promise fields
NoGen == -1
NoPromise == 0

\* the condition under which the constructor of GiveTree enables withering:
\* ls is props.lifeSpan, given (a number) or not
WitherEnabledAnyTree(local, ls) == (ls.given /\ ls.value > 0) \/ ~ls.given

WitherEnabled(local, ls) == ~local /\ ((ls.given /\ ls.value > 0) \/ ~ls.given)

\* this.lifeSpan of a tree that withers
TreeLifeSpan(ls) == IF ls.given /\ ls.value # 0 THEN ls.value ELSE DEFAULT_LIFE_SPAN

\* The state of a tree that withers is a record w of its fields root,
\* lifeSpan, currGen, witheringPromise and pendingWitheringPromise, of the
\* promises made so far (promises[p] tells whether promise p is fulfilled and
\* holds the reactions that then() has registered on it), of the queue of
\* promise jobs of the engine (jobs) and of the history of the requests
\* (hist).  A job or reaction is the callback op, the request req it serves
\* and the promise it settles; w.made is the promise made last.

\* Promise.resolve()
PromiseResolve(w) ==
  [w EXCEPT !.promises = Append(@, [fulfilled |-> TRUE, reactions |-> <<>>]),
            !.made = Len(w.promises) + 1]

\* a promise is rejected when the callback that settles it has raised, or
\* when the promise it was chained on is rejected (then() is given no
\* rejection handler anywhere in GiveTree)
IsRejected(w, p) == "rejected" \in DOMAIN w.promises[p]

\* p.then(op): a job is queued at once when p is settled; the job of a
\* rejected p passes the callback over
Then(w, p, op, req) ==
  Let([op |-> IF IsRejected(w, p) THEN "rejected" ELSE op, req |-> req,
       promise |-> Len(w.promises) + 1], LAMBDA job :
    [w EXCEPT
       !.promises = Append(IF w.promises[p].fulfilled THEN @
                           ELSE [@ EXCEPT ![p].reactions = Append(@, job)],
                           [fulfilled |-> FALSE, reactions |-> <<>>]),
       !.jobs = IF w.promises[p].fulfilled THEN Append(@, job) ELSE @,
       !.made = Len(w.promises) + 1])

\* the history: a request is issued, a request takes effect
Issue(w, op) ==
  [w EXCEPT !.hist.requested = Append(@, [op |-> op, n |-> Len(@) + 1])]
Applied(w, op, req) ==
  IF req = 0 THEN w
  ELSE [w EXCEPT !.hist.applied = Append(@, [op |-> op, n |-> req]),
                 !.hist.advances = IF op = "advance" THEN @ + 1 ELSE @]

\* an _advanceGenSync that wraps by the modulus
AdvanceGenSyncModulo(w, amount) ==
  [w EXCEPT !.currGen = (w.currGen + (IF amount = 0 THEN 1 ELSE amount)) % MaxGen]

\* GiveTree._advanceGenSync(amount): amount is 0 when it is not given
\* (amount || 1)
AdvanceGenSyncBy(w, amount) ==
  Let(w.currGen + (IF amount = 0 THEN 1 ELSE amount), LAMBDA g :
    [w EXCEPT !.currGen = IF g >= MaxGen THEN 0 ELSE g])

\* GiveTree._advanceGenSync()
AdvanceGenSync(w) == AdvanceGenSyncBy(w, 0)

\* GiveTree._advanceGen() that never waits for a pending pass
AdvanceGenAlwaysSync(w) ==
  IF w.currGen = NoGen THEN w
  ELSE Let(Issue(w, "advance"), LAMBDA w1 :
         Applied(AdvanceGenSync(w1), "advance", Len(w1.hist.requested)))

\* GiveTree._advanceGen()
AdvanceGen(w) ==
  IF w.currGen = NoGen THEN w
  ELSE Let(Issue(w, "advance"), LAMBDA w1 :
         IF w1.witheringPromise = NoPromise
           THEN Applied(AdvanceGenSync(w1), "advance", Len(w1.hist.requested))
           ELSE Let(Then(w1, IF w1.pendingWitheringPromise # NoPromise
                               THEN w1.pendingWitheringPromise
                               ELSE w1.witheringPromise,
                         "advance", Len(w1.hist.requested)), LAMBDA w2 :
                  [w2 EXCEPT !.pendingWitheringPromise = w2.made]))

\* the history: an advance by amount has taken w0 to w1
AppliedBy(w0, w1, amount, req) ==
  [w1 EXCEPT !.hist.applied = Append(@, [op |-> "advance", n |-> req, from |-> w0.currGen,
                                         amount |-> amount, to |-> w1.currGen]),
             !.hist.advances = @ + 1]

\* p.then(() => this._advanceGenSync(amount))
ThenAdvance(w, p, amount, req) ==
  Let([op |-> "advanceBy", req |-> req, promise |-> Len(w.promises) + 1, amount |-> amount],
      LAMBDA job :
    [w EXCEPT
       !.promises = Append(IF w.promises[p].fulfilled THEN @
                           ELSE [@ EXCEPT ![p].reactions = Append(@, job)],
                           [fulfilled |-> FALSE, reactions |-> <<>>]),
       !.jobs = IF w.promises[p].fulfilled THEN Append(@, job) ELSE @,
       !.made = Len(w.promises) + 1])

\* GiveTree._advanceGen(amount)
AdvanceGenBy(w, amount) ==
  IF w.currGen = NoGen THEN w
  ELSE Let(Issue(w, "advance"), LAMBDA w1 :
         IF w1.witheringPromise = NoPromise
           THEN AppliedBy(w1, AdvanceGenSyncBy(w1, amount), amount, Len(w1.hist.requested))
           ELSE Let(ThenAdvance(w1, IF w1.pendingWitheringPromise # NoPromise
                                      THEN w1.pendingWitheringPromise
                                      ELSE w1.witheringPromise,
                                amount, Len(w1.hist.requested)), LAMBDA w2 :
                  [w2 EXCEPT !.pendingWitheringPromise = w2.made]))

\* the age of a subtree born in generation birthGen, in generation gen
Age(gen, birthGen) ==
  IF gen >= birthGen THEN gen - birthGen ELSE gen + MaxGen - birthGen

\* a subtree born in the current generation (born counts the advances made
\* before its birth), and wither() on the root: the subtrees that are too
\* old are replaced by null
Sub(w) == [kind |-> "node", birthGen |-> w.currGen, born |-> w.hist.advances]
IsSub(v) == v.kind = "node"
WitherRoot(node, gen, span) ==
  [node EXCEPT !.values = AsArray(
     [i \in DOMAIN node.values |->
        IF IsSub(node.values[i]) /\ Age(gen, node.values[i].birthGen) > span
          THEN NullSlot ELSE node.values[i]])]

\* the history: a pass has changed the root from before to after
Passed(w, before, after) ==
  [w EXCEPT !.root = after,
            !.hist.passes = @ + 1,
            !.hist.passBefore = before,
            !.hist.passAfter = after,
            !.hist.passGen = w.currGen,
            !.hist.passAdvances = w.hist.advances]

\* GiveTree._witherSync() without the wither() of the root
WitherSyncNoPass(w) == Passed(w, w.root, RestructureRoot(w.root))

\* GiveTree._witherSync()
WitherSync(w) ==
  Passed(w, w.root, RestructureRoot(WitherRoot(w.root, w.currGen, w.lifeSpan)))

\* GiveTree._wither() that starts a new chain whatever is pending
WitherAlwaysFresh(w) ==
  IF w.currGen = NoGen THEN w
  ELSE Let(Issue(w, "wither"), LAMBDA w1 :
       Let(PromiseResolve(w1), LAMBDA w2 :
       Let(Then(w2, w2.made, "wither", Len(w1.hist.requested)), LAMBDA w3 :
       Let(Then(w3, w3.made, "update", 0), LAMBDA w4 :
         [w4 EXCEPT !.witheringPromise = w4.made]))))

\* GiveTree._wither()
Wither(w) ==
  IF w.currGen = NoGen THEN w
  ELSE Let(Issue(w, "wither"), LAMBDA w1 :
         IF w1.witheringPromise = NoPromise
           THEN Let(PromiseResolve(w1), LAMBDA w2 :
                Let(Then(w2, w2.made, "wither", Len(w1.hist.requested)), LAMBDA w3 :
                Let(Then(w3, w3.made, "update", 0), LAMBDA w4 :
                  [w4 EXCEPT !.witheringPromise = w4.made])))
           ELSE Let(Then(w1, IF w1.pendingWitheringPromise # NoPromise
                               THEN w1.pendingWitheringPromise
                               ELSE w1.witheringPromise,
                         "wither", Len(w1.hist.requested)), LAMBDA w2 :
                  [w2 EXCEPT !.pendingWitheringPromise = w2.made]))

\* GiveTree._updateWitherPromise() that forgets the pending chain
UpdateWitherPromiseNoPending(w) ==
  [w EXCEPT !.witheringPromise = NoPromise, !.pendingWitheringPromise = NoPromise]

\* GiveTree._updateWitherPromise()
UpdateWitherPromise(w) ==
  IF w.pendingWitheringPromise # NoPromise
    THEN Let(Then(w, w.pendingWitheringPromise, "update", 0), LAMBDA w1 :
           [w1 EXCEPT !.witheringPromise = w1.made,
                      !.pendingWitheringPromise = NoPromise])
    ELSE [w EXCEPT !.witheringPromise = NoPromise]

\* the engine runs the first promise job: the callback, then the promise of
\* the job is fulfilled and its reactions are queued
RunCallback(w, job) ==
  IF job.op = "advance" THEN Applied(AdvanceGenSync(w), "advance", job.req)
  ELSE IF job.op = "advanceBy"
    THEN AppliedBy(w, AdvanceGenSyncBy(w, job.amount), job.amount, job.req)
  ELSE IF job.op = "wither" THEN Applied(WitherSync(w), "wither", job.req)
  ELSE UpdateWitherPromise(w)

RunFirstJob(w) ==
  Let(RunCallback([w EXCEPT !.jobs = Tail(@)], Head(w.jobs)), LAMBDA w1 :
    [w1 EXCEPT !.jobs = @ \o w1.promises[Head(w.jobs).promise].reactions,
               !.promises[Head(w.jobs).promise] = [fulfilled |-> TRUE, reactions |-> <<>>]])

\* the reactions of a promise that is rejected: their callbacks are passed over
AsRejected(reactions) ==
  AsArray([k \in DOMAIN reactions |-> [reactions[k] EXCEPT !.op = "rejected"]])

\* the engine runs the first promise job, and _witherSync raises when raises
\* is set: the callback of a job that a rejection reached is not called, the
\* promise of the job is rejected and its reactions are queued
RunFirstJobRaising(w, raises) ==
  IF Head(w.jobs).op = "rejected" \/ (Head(w.jobs).op = "wither" /\ raises)
    THEN Let(IF Head(w.jobs).op = "wither"
               THEN Applied(w, "wither", Head(w.jobs).req) ELSE w, LAMBDA w1 :
           [w1 EXCEPT
              !.jobs = Tail(@) \o AsRejected(w.promises[Head(w.jobs).promise].reactions),
              !.promises[Head(w.jobs).promise] =
                 [fulfilled |-> TRUE, reactions |-> <<>>, rejected |-> TRUE]])
    ELSE RunFirstJob(w)

\* GiveNonLeafNode._traverseChildren over the slots of the root from slot j
\* on: an Unloaded slot raises unless props.allowNull, a subtree that is
\* visited is born again (it becomes sub) when the tree withers, and the
\* callback may raise on the first subtree it is given
RECURSIVE Visit(_, _, _, _, _, _)
Visit(node, j, r, p, throws, sub) ==
  IF j > ChildNum(node) \/ node.keys[j] >= r.end THEN [node |-> node, err |-> ""]
  ELSE IF NotReady(node, j, p) THEN [node |-> node, err |-> "DataNotReady"]
  ELSE IF IsSub(node.values[j])
    THEN IF throws
           THEN [node |-> [node EXCEPT !.values[j] = sub], err |-> "Callback"]
           ELSE Visit([node EXCEPT !.values[j] = sub], j + 1, r, p, throws, sub)
  ELSE Visit(node, j + 1, r, p, throws, sub)

\* GiveTree.traverse(chrRange, props) without the finally block: nothing is
\* done after the traversal raised
TreeTraverseNoFinally(w, r, p, doNotWither, throws) ==
  Let(IF doNotWither THEN w ELSE AdvanceGen(w), LAMBDA w1 :
  Let(Visit(w1.root, SkipTo(w1.root, 1, r.start), r, p, throws, Sub(w1)), LAMBDA t :
    [w |-> IF doNotWither \/ t.err # "" THEN [w1 EXCEPT !.root = t.node]
           ELSE Wither([w1 EXCEPT !.root = t.node]),
     err |-> t.err]))

\* GiveTree.traverse(chrRange, props) on a tree whose subtrees wither
TreeTraverseW(w, r, p, doNotWither, throws) ==
  Let(IF doNotWither THEN w ELSE AdvanceGen(w), LAMBDA w1 :
  Let(Visit(w1.root, SkipTo(w1.root, 1, r.start), r, p, throws, Sub(w1)), LAMBDA t :
    [w |-> IF doNotWither THEN [w1 EXCEPT !.root = t.node]
           ELSE Wither([w1 EXCEPT !.root = t.node]),
     err |-> t.err]))

\* the root after an insert over the Unloaded range r has stored a subtree
\* there: i is the slot that holds r
LoadAt(node, i, r, sub) ==
  Let(IF node.keys[i] < r.start
        THEN [keys |-> InsertAt(node.keys, i + 1, r.start),
              values |-> InsertAt(node.values, i + 1, NullSlot)]
        ELSE node, LAMBDA n1 :
  Let(IF node.keys[i] < r.start THEN i + 1 ELSE i, LAMBDA i1 :
  Let(IF n1.keys[i1 + 1] > r.end
        THEN [keys |-> InsertAt(n1.keys, i1 + 1, r.end),
              values |-> InsertAt(n1.values, i1 + 1, NullSlot)]
        ELSE n1, LAMBDA n2 :
    [n2 EXCEPT !.values[i1] = sub])))

\* GiveTree._insertSingleRange over an Unloaded range r: the traversal of
\* DataNode.preInsertionOp over the part of the covering range before r
\* (with allowNull and without doNotWither), then the insertion
InsertSingleRangeW(w, r) ==
  Let(GetMinus(CoveringRange(w.root), r), LAMBDA minus :
  Let(IF minus # <<>>
        THEN TreeTraverseW(w, minus[1], TravProps("sync", TRUE, FALSE, -1, -1),
                           FALSE, FALSE).w
        ELSE w, LAMBDA w1 :
    [w1 EXCEPT !.root = LoadAt(w1.root, SkipTo(w1.root, 1, r.start), r,
                               Sub(w1))]))

\* ------------------------------------------------------------ state machine
\* localOnly  the option the tree was constructed with (lifeSpan is 0)
\* source     the intervals of the data source the tree caches
\* root       the root node of the tree
\* origin     the arguments of the insert that built the tree from an empty
\*            tree, when nothing else has changed the tree since
\* last       the facade call in progress: its arguments, the root before it
\*            and what it handed back to the caller ("idle" between calls)
\* branchingFactor  the branching factor the tree was constructed with
\* lifeSpan   props.lifeSpan of the constructor: given (a number) or not
\* currGen, witheringPromise, pendingWitheringPromise  the fields of the tree
\* promises, jobs  the promises made by the tree and the queue of their jobs
\* hist       the wither and advance requests issued and applied so far, the
\*            last wither pass, and the state the call in progress began in
VARIABLES localOnly, source, root, origin, last, branchingFactor, lifeSpan, currGen,
          witheringPromise, pendingWitheringPromise, promises, jobs, hist

witherVars == <<lifeSpan, currGen, witheringPromise, pendingWitheringPromise, promises,
                jobs, hist>>

vars == <<localOnly, source, root, origin, last, branchingFactor, witherVars>>

NoCall == [genBefore |-> NoGen, doNotWither |-> FALSE, pendingBefore |-> FALSE,
           reqBefore |-> 0, throws |-> FALSE]
NoHist == [requested |-> <<>>, applied |-> <<>>, advances |-> 0, passes |-> 0,
           passBefore |-> NewRoot(FALSE), passAfter |-> NewRoot(FALSE), passGen |-> NoGen,
           passAdvances |-> 0, calls |-> 0, call |-> NoCall]

\* a tree that does not wither (lifeSpan: 0)
NoWither ==
  /\ lifeSpan = [given |-> TRUE, value |-> 0]
  /\ currGen = NoGen
  /\ witheringPromise = NoPromise
  /\ pendingWitheringPromise = NoPromise
  /\ promises = <<>>
  /\ jobs = <<>>
  /\ hist = NoHist

NoProps == TravProps("none", FALSE, FALSE, -1, -1)

NoBatch == [given |-> FALSE, data |-> <<>>, ranges |-> <<>>, cl |-> <<>>]

Idle == [op |-> "idle", data |-> <<>>, ranges |-> <<>>, hasProps |-> FALSE, cl |-> <<>>,
         props |-> NoProps, exactMatch |-> FALSE, convertTo |-> NoSlot,
         before |-> NewRoot(FALSE), dataAfter |-> <<>>, log |-> <<>>, err |-> "",
         errs |-> <<>>, tried |-> <<>>, ret |-> TRUE, uncached |-> <<>>, seed |-> <<>>]

\* a set of intervals as an array, in some order
RECURSIVE SeqOf(_)
SeqOf(S) == IF S = {} THEN <<>> ELSE LET x == CHOOSE x \in S : TRUE
                                     IN <<x>> \o SeqOf(S \ {x})

Init ==
  /\ localOnly \in BOOLEAN
  /\ source \in {S \in SUBSET BasePool : Cardinality(S) = MaxData}
  /\ root = NewRoot(localOnly)
  /\ origin = NoBatch
  /\ last = Idle
  /\ branchingFactor = DEFAULT_B_FACTOR
  /\ NoWither

\* The arguments of insert that honour its contract: every interval of the
\* source that overlaps a range being loaded is supplied, in data or (when it
\* starts before the range) in props.continuedList.  role tells where each
\* interval of the source goes.
ValidInsert(role, chrRanges, hasProps) ==
  IF localOnly
    THEN chrRanges = <<>> /\ \A x \in source : role[x] # "cl"
  ELSE IF chrRanges # <<>>
    THEN /\ hasProps
         /\ \A x \in source :
              LET R == chrRanges[1]
              IN /\ (R.start <= x.start /\ x.start < R.end) => role[x] = "data"
                 /\ (x.start < R.start /\ x.end > R.start) => role[x] # "none"
                 /\ (x.end <= R.start \/ x.start >= R.end) => role[x] # "cl"
  ELSE /\ \A x \in source : role[x] # "cl"
       /\ \A x \in source, y \in source :
            (role[x] = "data" /\ Overlaps(x, y)) => role[y] = "data"

\* what tree.insert(data, chrRanges, props) leaves: r is what GiveTree.insert
\* computed
InsertEnd(data, chrRanges, hasProps, cl, r) ==
  /\ root' = r.node
  /\ origin' = IF root = NewRoot(localOnly) /\ r.errs = <<>>
                 THEN [given |-> TRUE, data |-> data, ranges |-> chrRanges, cl |-> cl]
                 ELSE NoBatch
  /\ last' = [Idle EXCEPT !.op = "insert", !.data = data, !.ranges = chrRanges,
                          !.hasProps = hasProps, !.cl = cl, !.before = root,
                          !.dataAfter = r.cx.data, !.log = r.cx.log, !.errs = r.errs,
                          !.tried = r.tried,
                          !.err = IF r.errs = <<>> THEN ""
                                  ELSE IF localOnly THEN r.cx.err ELSE "Aggregated"]

InsertDone(data, chrRanges, hasProps, cl) ==
  InsertEnd(data, chrRanges, hasProps, cl,
            TreeInsert(localOnly, root, data, chrRanges, hasProps, cl))

\* tree.insert(data, chrRanges, props): the caller supplies objects (identity
\* g) of intervals of the source, part of them as props.continuedList
Insert ==
  /\ last.op = "idle"
  /\ \E role \in [source -> {"none", "data", "cl"}], g \in Ids,
        chrRanges \in {<<>>} \cup {<<r>> : r \in Ranges}, hasProps \in BOOLEAN :
       /\ ValidInsert(role, chrRanges, hasProps)
       /\ InsertDone(SeqOf({Obj(x, g) : x \in {y \in source : role[y] = "data"}}),
                     chrRanges, hasProps,
                     SortList(SeqOf({Obj(x, g) : x \in {y \in source : role[y] = "cl"}})))
  /\ UNCHANGED <<localOnly, source, branchingFactor, witherVars>>

\* tree.remove(data, props): props.exactMatch is set or not, props.convertTo
\* is left out or is false
Remove ==
  /\ last.op = "idle"
  /\ \E x \in source, exactMatch \in BOOLEAN, convertTo \in {NoSlot, FalseSlot} :
       /\ root' = TreeRemove(localOnly, root, Obj(x, 0), exactMatch, convertTo)
       /\ last' = [Idle EXCEPT !.op = "remove", !.data = <<Obj(x, 0)>>,
                               !.exactMatch = exactMatch, !.convertTo = convertTo,
                               !.before = root]
  /\ origin' = NoBatch
  /\ UNCHANGED <<localOnly, source, branchingFactor, witherVars>>

\* tree.clear()
Clear ==
  /\ last.op = "idle"
  /\ root' = TreeClear(localOnly, root)
  /\ origin' = NoBatch
  /\ last' = [Idle EXCEPT !.op = "clear", !.before = root]
  /\ UNCHANGED <<localOnly, source, branchingFactor, witherVars>>

\* the props of the caller's traversals: a dataCallback that records its
\* argument, alone, with a dataFilter, or returning false on some entries
UserProps ==
  {TravProps("user", a, FALSE, -1, -1) : a \in BOOLEAN}
    \cup {TravProps("user", TRUE, FALSE, MaxCoord, -1)}
    \cup {TravProps("user", a, TRUE, -1, 1) : a \in BOOLEAN}
    \cup {TravProps("user", TRUE, FALSE, -1, 1)}
    \cup {TravProps("user", TRUE, TRUE, MaxCoord, 1)}

\* tree.traverse(chrRange, props) with a recording dataCallback
Traverse ==
  /\ last.op = "idle"
  /\ \E r \in Ranges, p \in UserProps :
       last' = Let(TreeTraverse(root, r, p, FALSE, <<>>, <<>>), LAMBDA t :
                 [Idle EXCEPT !.op = "traverse", !.ranges = <<r>>, !.props = p,
                              !.before = root, !.log = t.ts.log, !.err = t.ts.err,
                              !.ret = t.ok])
  /\ UNCHANGED <<localOnly, source, root, origin, branchingFactor, witherVars>>

\* the lists a caller passes as props._result: the lists an earlier query
\* may have returned, sorted, of ranges that neither overlap nor touch
Seeds ==
  {SortList(SeqOf(S)) : S \in {T \in SUBSET Ranges :
     \A a \in T, b \in T : a # b => (a.end < b.start \/ b.end < a.start)}}

\* tree.getUncachedRange(chrRange, {_result: seed}) and
\* tree.hasUncachedRange(chrRange)
Uncached ==
  /\ last.op = "idle"
  /\ \E r \in Ranges, seed \in Seeds :
       last' = [Idle EXCEPT !.op = "uncached", !.ranges = <<r>>, !.before = root,
                            !.seed = seed,
                            !.uncached = GetUncachedRange(localOnly, root, r, seed),
                            !.ret = HasUncachedRange(localOnly, root, r)]
  /\ UNCHANGED <<localOnly, source, root, origin, branchingFactor, witherVars>>

\* the call returns to the caller
Return ==
  /\ last.op # "idle"
  /\ last.err # Stuck
  /\ last' = Idle
  /\ UNCHANGED <<localOnly, source, root, origin, branchingFactor, witherVars>>

Next == Insert \/ Remove \/ Clear \/ Traverse \/ Uncached \/ Return

Spec == Init /\ [][Next]_vars

\* the histories that consist of inserts and queries only
NextIns == Insert \/ Traverse \/ Uncached \/ Return
SpecIns == Init /\ [][NextIns]_vars

\* ------------------------------------------- trees of a small branching factor
\* the intervals of the data source of these trees, and the ranges asked for
BalFactors == {3, 4}
BalPool == {x \in [start : 0..(BalCoord - 1), end : 1..BalCoord, val : Vals] :
              x.end = x.start + 1}
BalRanges == {r \in [start : 0..(BalCoord - 1), end : 1..BalCoord] : r.start < r.end}

\* new SampleTree(range, {branchingFactor, localOnly, lifeSpan: 0})
InitBal ==
  /\ localOnly \in BOOLEAN
  /\ source \in SUBSET BalPool
  /\ root = [keys |-> <<0, BalCoord>>, values |-> <<EmptyChildValue(localOnly)>>]
  /\ origin = NoBatch
  /\ last = Idle
  /\ branchingFactor \in BalFactors
  /\ NoWither

\* what tree.insert leaves when the root restructures itself: r is what
\* GiveTree.insert computed up to the restructuring of the root
InsertBalEnd(data, chrRanges, hasProps, cl, r) ==
  /\ root' = IF r.errs = <<>> THEN SampleRestructureRoot(r.node, branchingFactor)
             ELSE r.node
  /\ last' = [Idle EXCEPT !.op = "insert", !.data = data, !.ranges = chrRanges,
                          !.hasProps = hasProps, !.cl = cl, !.before = root,
                          !.dataAfter = r.cx.data, !.log = r.cx.log, !.errs = r.errs,
                          !.tried = r.tried,
                          !.err = IF r.errs = <<>> THEN ""
                                  ELSE IF localOnly THEN r.cx.err ELSE "Aggregated"]

\* tree.insert(data, chrRanges, props) on a root of reverseDepth 0, with at
\* most one range to load, so that the root restructures itself once, at the
\* end of the call
InsertBal ==
  /\ last.op = "idle"
  /\ ReverseDepth(root) = 0
  /\ \E role \in [source -> {"none", "data", "cl"}],
        chrRanges \in {<<>>} \cup {<<r>> : r \in BalRanges}, hasProps \in BOOLEAN :
       /\ ValidInsert(role, chrRanges, hasProps)
       /\ Let(SeqOf({Obj(x, 0) : x \in {y \in source : role[y] = "data"}}), LAMBDA data :
            /\ \/ localOnly
               \/ Len(UncachedOf(root,
                                 IF chrRanges = <<>>
                                   THEN [k \in DOMAIN data |->
                                           Region(data[k].start, data[k].end)]
                                   ELSE chrRanges, 1, <<>>)) <= 1
            /\ InsertBalEnd(data, chrRanges, hasProps,
                 SortList(SeqOf({Obj(x, 0) : x \in {y \in source : role[y] = "cl"}})),
                 TreeInsert(localOnly, root, data, chrRanges, hasProps,
                   SortList(SeqOf({Obj(x, 0) : x \in {y \in source : role[y] = "cl"}})))))
  /\ origin' = NoBatch
  /\ UNCHANGED <<localOnly, source, branchingFactor, witherVars>>

\* tree.remove(data, props) on a root of reverseDepth 0
RemoveBal ==
  /\ last.op = "idle"
  /\ ReverseDepth(root) = 0
  /\ \E x \in source, exactMatch \in BOOLEAN :
       /\ root' = SampleRestructureRoot(
                    NodeRemoveData(root, Obj(x, 0), exactMatch, NullSlot, localOnly),
                    branchingFactor)
       /\ last' = [Idle EXCEPT !.op = "remove", !.data = <<Obj(x, 0)>>,
                               !.exactMatch = exactMatch, !.before = root]
  /\ origin' = NoBatch
  /\ UNCHANGED <<localOnly, source, branchingFactor, witherVars>>

NextBal == InsertBal \/ RemoveBal \/ Return
SpecBal == InitBal /\ [][NextBal]_vars

\* ------------------------------------------------ trees of several levels
\* what tree.insert leaves: r is what GiveTree.insert computed up to the
\* end of GiveNonLeafNode.insert, which returns what
\* _restructureImmediateChildren returns; a call that never returns says so
InsertDeepEnd(data, chrRanges, hasProps, cl, r) ==
  /\ root' = IF r.errs = <<>>
               THEN SampleRestructureImmediateChildren(r.node, branchingFactor).node
               ELSE r.node
  /\ last' = [Idle EXCEPT !.op = "insert", !.data = data, !.ranges = chrRanges,
                          !.hasProps = hasProps, !.cl = cl, !.before = root,
                          !.dataAfter = r.cx.data, !.log = r.cx.log, !.errs = r.errs,
                          !.tried = r.tried,
                          !.err = IF r.errs = <<>>
                                    THEN SampleRestructureImmediateChildren(
                                           r.node, branchingFactor).err
                                  ELSE IF \E k \in DOMAIN r.tried : r.tried[k].err = Stuck
                                    THEN Stuck
                                  ELSE IF localOnly THEN r.cx.err ELSE "Aggregated"]

\* tree.insert(data, chrRanges, props) on a root of reverseDepth 0 or 1, with
\* at most one range to load; the children of the root hold slots.  The
\* calls on a tree with a link to a node that was taken out are not
\* followed: what they merge across that link depends on the arrays and
\* bins the node taken out shares with the tree.
InsertDeep ==
  /\ last.op = "idle"
  /\ ReverseDepth(root) <= 1
  /\ ~LinksToTakenOut(root)
  /\ \E role \in [source -> {"none", "data", "cl"}],
        chrRanges \in {<<>>} \cup {<<r>> : r \in BalRanges}, hasProps \in BOOLEAN :
       /\ ValidInsert(role, chrRanges, hasProps)
       /\ Let(SeqOf({Obj(x, 0) : x \in {y \in source : role[y] = "data"}}), LAMBDA data :
            /\ \/ localOnly
               \/ Len(UncachedOf(root,
                                 IF chrRanges = <<>>
                                   THEN [k \in DOMAIN data |->
                                           Region(data[k].start, data[k].end)]
                                   ELSE chrRanges, 1, <<>>)) <= 1
            /\ InsertDeepEnd(data, chrRanges, hasProps,
                 SortList(SeqOf({Obj(x, 0) : x \in {y \in source : role[y] = "cl"}})),
                 TreeInsert(localOnly, root, data, chrRanges, hasProps,
                   SortList(SeqOf({Obj(x, 0) : x \in {y \in source : role[y] = "cl"}})))))
  /\ origin' = NoBatch
  /\ UNCHANGED <<localOnly, source, branchingFactor, witherVars>>

\* tree.remove(data, props) on a root of reverseDepth 0 or 1
RemoveDeep ==
  /\ last.op = "idle"
  /\ ReverseDepth(root) <= 1
  /\ ~LinksToTakenOut(root)
  /\ ChildrenRestructure(root)
  /\ \E x \in source, exactMatch \in BOOLEAN, convertTo \in {NoSlot, FalseSlot} :
       Let(SampleTreeRemove(localOnly, root, Obj(x, 0), exactMatch, convertTo,
                            branchingFactor), LAMBDA r :
         /\ root' = r.node
         /\ last' = [Idle EXCEPT !.op = "remove", !.data = <<Obj(x, 0)>>,
                                 !.exactMatch = exactMatch, !.convertTo = convertTo,
                                 !.before = root, !.err = r.err])
  /\ origin' = NoBatch
  /\ UNCHANGED <<localOnly, source, branchingFactor, witherVars>>

\* new SampleTree(range, {branchingFactor, localOnly, lifeSpan: 0}) with a
\* data source of at most MaxDeepData intervals
InitDeep ==
  /\ InitBal
  /\ Cardinality(source) <= MaxDeepData

NextDeep == InsertDeep \/ RemoveDeep \/ Return
SpecDeep == InitDeep /\ [][NextDeep]_vars

\* ------------------------------------- callers that break insert's contract
\* the data source of these trees: the intervals of length one at the two
\* ends of the tree
WideSource == {x \in BalPool : x.start < 2 \/ x.end = BalCoord}

\* new GiveTree(range, NonLeafNodeCtor, {lifeSpan: 0}) over [0, BalCoord)
InitWide ==
  /\ localOnly = FALSE
  /\ source = WideSource
  /\ root = [keys |-> <<0, BalCoord>>, values |-> <<NullSlot>>]
  /\ origin = NoBatch
  /\ last = Idle
  /\ branchingFactor = DEFAULT_B_FACTOR
  /\ NoWither

\* tree.insert(data, chrRanges, props) with a props object and any other
\* arguments, also those that break the contract of insert:
\* props.continuedList may hold entries that do not reach the range, or that
\* the tree does not store where they start
InsertWide ==
  /\ last.op = "idle"
  /\ hist.calls < MaxCalls - 1
  /\ \E role \in [source -> {"none", "data", "cl"}],
        chrRanges \in {<<>>} \cup {<<r>> : r \in BalRanges} :
       InsertDone(SeqOf({Obj(x, 0) : x \in {y \in source : role[y] = "data"}}),
                  chrRanges, TRUE,
                  SortList(SeqOf({Obj(x, 0) : x \in {y \in source : role[y] = "cl"}})))
  /\ hist' = [hist EXCEPT !.calls = @ + 1]
  /\ UNCHANGED <<localOnly, source, branchingFactor, lifeSpan, currGen,
                 witheringPromise, pendingWitheringPromise, promises, jobs>>

NextWide == InsertWide \/ Return
SpecWide == InitWide /\ [][NextWide]_vars

\* ------------------------------------------------------ trees that may wither
\* props.lifeSpan of the constructor
LifeSpans == {[given |-> FALSE, value |-> 0]}
               \cup {[given |-> TRUE, value |-> v] : v \in {-1, 0, 1}}

\* new SampleTree(range, {lifeSpan, localOnly})
InitWither ==
  /\ localOnly \in BOOLEAN
  /\ source = {}
  /\ root = NewRoot(localOnly)
  /\ origin = NoBatch
  /\ last = Idle
  /\ branchingFactor = DEFAULT_B_FACTOR
  /\ lifeSpan \in LifeSpans
  /\ currGen = IF WitherEnabled(localOnly, lifeSpan) THEN 0 ELSE NoGen
  /\ witheringPromise = NoPromise
  /\ pendingWitheringPromise = NoPromise
  /\ promises = <<>>
  /\ jobs = <<>>
  /\ hist = NoHist

\* the fields of the tree as a record, and the fields after a step
W ==
  [root |-> root, lifeSpan |-> TreeLifeSpan(lifeSpan), currGen |-> currGen,
   witheringPromise |-> witheringPromise,
   pendingWitheringPromise |-> pendingWitheringPromise,
   promises |-> promises, jobs |-> jobs, hist |-> hist, made |-> NoPromise]

SetW(w) ==
  /\ root' = w.root
  /\ currGen' = w.currGen
  /\ witheringPromise' = w.witheringPromise
  /\ pendingWitheringPromise' = w.pendingWitheringPromise
  /\ promises' = w.promises
  /\ jobs' = w.jobs
  /\ hist' = w.hist

\* the state a call begins in
Called(w, doNotWither, throws) ==
  [w EXCEPT !.hist.calls = @ + 1,
            !.hist.call = [genBefore |-> w.currGen, doNotWither |-> doNotWither,
                           pendingBefore |-> w.witheringPromise # NoPromise,
                           reqBefore |-> Len(w.hist.requested), throws |-> throws]]

\* tree.traverse(chrRange, props): the callback may raise
TraverseW ==
  /\ last.op = "idle"
  /\ hist.calls < MaxCalls
  /\ \E r \in Ranges, allowNull \in BOOLEAN, doNotWither \in BOOLEAN, throws \in BOOLEAN :
       Let(TreeTraverseW(Called(W, doNotWither, throws), r,
                         TravProps("user", allowNull, FALSE, -1, -1),
                         doNotWither, throws), LAMBDA t :
         /\ SetW(t.w)
         /\ last' = [Idle EXCEPT !.op = "traverse", !.ranges = <<r>>,
                                 !.props = TravProps("user", allowNull, FALSE, -1, -1),
                                 !.before = root, !.err = t.err])
  /\ UNCHANGED <<localOnly, source, origin, branchingFactor, lifeSpan>>

\* tree.insert(data, r) over a range r that lies in an Unloaded slot
InsertW ==
  /\ last.op = "idle"
  /\ hist.calls < MaxCalls
  /\ ~localOnly
  /\ \E r \in Ranges :
       /\ Let(SkipTo(root, 1, r.start), LAMBDA i :
            /\ root.values[i].kind = "null"
            /\ r.end <= root.keys[i + 1])
       /\ SetW(InsertSingleRangeW(Called(W, FALSE, FALSE), r))
       /\ last' = [Idle EXCEPT !.op = "insert", !.ranges = <<r>>, !.before = root]
  /\ UNCHANGED <<localOnly, source, origin, branchingFactor, lifeSpan>>

\* the engine runs the first promise job, between two calls
RunJob ==
  /\ last.op = "idle"
  /\ jobs # <<>>
  /\ SetW(RunFirstJob(W))
  /\ UNCHANGED <<localOnly, source, origin, last, branchingFactor, lifeSpan>>

NextWither == TraverseW \/ InsertW \/ RunJob \/ Return
SpecWither == InitWither /\ [][NextWither]_vars

\* the engine runs the first promise job; a wither pass may raise
RunJobRaising ==
  /\ last.op = "idle"
  /\ jobs # <<>>
  /\ \E raises \in BOOLEAN : SetW(RunFirstJobRaising(W, raises))
  /\ UNCHANGED <<localOnly, source, origin, last, branchingFactor, lifeSpan>>

\* Traversals only, of which there are finitely many; the engine runs every
\* promise job that is queued (the microtask queue is drained whenever the
\* call stack is empty), and every call returns.
NextQuiet == TraverseW \/ RunJobRaising \/ Return
SpecQuiet ==
  InitWither /\ [][NextQuiet]_vars /\ WF_vars(RunJobRaising) /\ WF_vars(Return)

\* tree._advanceGen(amount), called between traversals
AdvanceW ==
  /\ last.op = "idle"
  /\ hist.calls < MaxCalls
  /\ \E amount \in 1..MaxAmount :
       /\ SetW(AdvanceGenBy(Called(W, FALSE, FALSE), amount))
       /\ last' = [Idle EXCEPT !.op = "advanceGen", !.before = root]
  /\ UNCHANGED <<localOnly, source, origin, branchingFactor, lifeSpan>>

NextGen == AdvanceW \/ TraverseW \/ RunJob \/ Return
SpecGen == InitWither /\ [][NextGen]_vars

\* --------------------------------------------------------------- properties
\* the bins of a node, the objects they hold, and how often a log has one
BinsOf(node) == {node.values[i] : i \in {k \in DOMAIN node.values : IsBin(node.values[k])}}
Stored(node) == UNION {Elems(b.startList) \cup Elems(b.continuedList) : b \in BinsOf(node)}
Times(log, x) == Cardinality({k \in DOMAIN log : log[k] = x})
HasNull(node) == \E i \in DOMAIN node.values : node.values[i].kind = "null"
SlotOverlaps(node, i, r) == node.keys[i] < r.end /\ r.start < node.keys[i + 1]
\* the objects held by the bins of the slots that overlap r
StoredIn(node, r) ==
  UNION {Elems(node.values[i].startList) \cup Elems(node.values[i].continuedList) :
         i \in {k \in DOMAIN node.values : IsBin(node.values[k]) /\ SlotOverlaps(node, k, r)}}

\* C1: a traverse over R that completes without break and has no filter
\* passes every interval that overlaps R and is stored in a bin of a slot in R
\* to dataCallback exactly once.
C1_EveryStoredOnce ==
  (last.op = "traverse" /\ last.err = "" /\ last.ret /\ last.props.rejectEnd = -1)
    => \A x \in StoredIn(root, last.ranges[1]) :
         Overlaps(x, last.ranges[1]) => Times(last.log, x) = 1

\* C2: on a non-localOnly tree, after insert(D, R) returns without error,
\* hasUncachedRange(R) is false: no slot that overlaps R is Unloaded.
C2_InsertLoadsRange ==
  (last.op = "insert" /\ ~localOnly /\ last.err = "" /\ last.ranges # <<>>)
    => /\ ~HasUncachedRange(localOnly, root, last.ranges[1])
       /\ \A i \in DOMAIN root.values :
            SlotOverlaps(root, i, last.ranges[1]) => root.values[i].kind # "null"

\* C3: calling insert(D, R) a second time with the same arguments invokes
\* dataCallback zero times and leaves the tree equal to its state after the
\* first call.
C3_InsertIdempotent ==
  (last.op = "insert" /\ last.err = "")
    => Let(TreeInsert(localOnly, root, last.data, last.ranges, last.hasProps, last.cl),
           LAMBDA again : again.cx.log = <<>> /\ again.node = root)

\* C4: after any sequence of inserts all bins that hold a given interval hold
\* the same object: a bin written by an insert references the stored object,
\* not a supplied clone, so two stored objects that are equal as intervals
\* are one object.
C4_CanonicalIdentity ==
  \A x \in Stored(root), y \in Stored(root) : EqualTo(x, y) => x = y

\* the range a traverse after the first insert has to use to read it back
OriginRead(r) ==
  /\ origin.given /\ origin.cl = <<>>
  /\ IF localOnly THEN TRUE ELSE origin.ranges = <<r>>

\* C5: after insert of D over R into an empty tree, a traverse of R whose
\* callback records its argument yields the entries of D that overlap R and
\* that dataFilter accepts, in comparator order.
C5_RoundTrip ==
  (last.op = "traverse" /\ OriginRead(last.ranges[1])
     /\ (last.props.falseStart = -1 \/ ~last.props.breakOnFalse))
    => /\ last.err = "" /\ last.ret
       /\ last.log = SelectSeq(SortList(origin.data),
                               LAMBDA e : Overlaps(e, last.ranges[1])
                                          /\ e.end # last.props.rejectEnd)

C5_Witness ==
  /\ last.op = "traverse" /\ OriginRead(last.ranges[1])
  /\ last.props.falseStart = -1
  /\ Len(last.log) >= 2 /\ last.log[1] # last.log[2]

\* the loaded bins in the range of the traverse have had their own entries
\* (those that overlap the range and pass dataFilter) passed to dataCallback
LoadedBinsVisited ==
  \A i \in DOMAIN root.values :
    (IsBin(root.values[i]) /\ SlotOverlaps(root, i, last.ranges[1]))
      => \A e \in Elems(root.values[i].startList) :
           (Overlaps(e, last.ranges[1]) /\ e.end # last.props.rejectEnd)
             => Times(last.log, e) >= 1

\* a breakOnFalse callback ended the traverse
Broke == last.props.breakOnFalse /\ ~last.ret /\ last.err = ""

\* C6 (as stated): a traverse whose range overlaps an Unloaded slot fails
\* with a data-not-ready error when allowNull is not set; with allowNull it
\* does not fail and visits every loaded bin in range.
C6_UnloadedAlwaysFails ==
  (last.op = "traverse" /\ NodeHasUncachedRange(root, last.ranges[1]))
    => IF ~last.props.allowNull
         THEN last.err = "DataNotReady"
         ELSE last.err = "" /\ (Broke \/ LoadedBinsVisited)

\* C6: a traverse whose range overlaps an Unloaded slot fails with a
\* data-not-ready error when allowNull is not set, unless a breakOnFalse
\* callback ended it before the Unloaded slot was reached; with allowNull it
\* does not fail and, unless ended by breakOnFalse, visits every loaded bin
\* in range.
C6_UnloadedSlots ==
  (last.op = "traverse" /\ NodeHasUncachedRange(root, last.ranges[1]))
    => IF ~last.props.allowNull
         THEN last.err = "DataNotReady" \/ Broke
         ELSE last.err = "" /\ (Broke \/ LoadedBinsVisited)

C6_Witness ==
  /\ last.op = "traverse" /\ NodeHasUncachedRange(root, last.ranges[1])
  /\ last.props.allowNull /\ last.ret /\ Len(last.log) >= 2
  /\ \E i \in DOMAIN root.values, j \in DOMAIN root.values, k \in DOMAIN root.values :
       /\ i < j /\ j < k
       /\ IsBin(root.values[i]) /\ root.values[j].kind = "null" /\ IsBin(root.values[k])
       /\ SlotOverlaps(root, i, last.ranges[1]) /\ SlotOverlaps(root, k, last.ranges[1])

\* the entries the same traverse passes when its callback never returns a
\* falsy value
Baseline ==
  TreeTraverse(last.before, last.ranges[1], [last.props EXCEPT !.falseStart = -1],
               FALSE, <<>>, <<>>).ts.log
FirstFalse(log) ==
  CHOOSE k \in DOMAIN log :
    /\ log[k].start = last.props.falseStart
    /\ \A m \in 1..(k - 1) : log[m].start # last.props.falseStart

\* C7: with breakOnFalse the first falsy return of dataCallback ends the
\* traverse: no later entry is passed and traverse returns false; otherwise
\* every overlapping entry is passed and traverse returns true.
C7_BreakOnFalse ==
  (last.op = "traverse" /\ last.err = "")
    => Let(Baseline, LAMBDA base :
         IF last.props.breakOnFalse
              /\ \E k \in DOMAIN base : base[k].start = last.props.falseStart
           THEN ~last.ret /\ last.log = SubSeq(base, 1, FirstFalse(base))
           ELSE last.ret /\ last.log = base)

C7_Witness ==
  /\ last.op = "traverse" /\ last.err = "" /\ last.props.breakOnFalse /\ ~last.ret
  /\ Len(last.log) >= 1 /\ Len(last.log) < Len(Baseline)

\* C8: on a localOnly tree getUncachedRange returns the empty list and
\* hasUncachedRange returns false.
C8_LocalNothingUncached ==
  (last.op = "uncached" /\ localOnly) => (last.uncached = <<>> /\ ~last.ret)

C8_Witness ==
  /\ last.op = "uncached" /\ localOnly /\ BinsOf(root) # {}
  /\ last.ranges[1] = CoveringRange(root)

\* C9: on a localOnly tree the entries stored before an insert are still
\* stored after it, in the startList of the bin that held them.
C9_LocalInsertKeeps ==
  (last.op = "insert" /\ localOnly /\ last.err = "")
    => \A b \in BinsOf(last.before) : \A e \in Elems(b.startList) :
         \E b2 \in BinsOf(root) : b2.start = b.start /\ e \in Elems(b2.startList)

\* C10: a localOnly tree contains no Unloaded slot.
C10_LocalNoUnloaded == localOnly => ~HasNull(root)

\* the inner nodes of a tree other than its root
RECURSIVE NonRootNodes(_)
NonRootNodes(node) ==
  IF ReverseDepth(node) = 0 THEN {}
  ELSE UNION {{node.values[i]} \cup NonRootNodes(node.values[i]) : i \in DOMAIN node.values}

CeilHalf(b) == (b + 1) \div 2

\* C11: after every completed insert or remove every inner node other than
\* the root has between ceil(B/2) and B children, B being the branching
\* factor of the tree.
C11_Balanced ==
  \A n \in NonRootNodes(root) :
    CeilHalf(branchingFactor) <= ChildNum(n) /\ ChildNum(n) <= branchingFactor

\* the sub-ranges that the insert in progress found Unloaded, in the order in
\* which it loaded them
LoadedByLast ==
  UncachedOf(last.before,
             IF last.ranges = <<>>
               THEN Let(SortList(last.data), LAMBDA sorted :
                      [k \in DOMAIN sorted |-> Region(sorted[k].start, sorted[k].end)])
               ELSE last.ranges,
             1, <<>>)

\* C12 (as stated): when insert returns normally the caller's data array is
\* empty, whatever the ranges and whatever part of them was already loaded.
C12_DataEmpty ==
  (last.op = "insert" /\ last.err = "") => last.dataAfter = <<>>

\* C12: when insert returns normally the caller's data array is sorted and
\* holds no entry that starts before the end of the last sub-range the call
\* loaded; the entries that start at or after that end are left in it, and
\* all entries are left when every range was already loaded.  On a localOnly
\* tree, where the whole covering range is inserted, the array is empty.
C12_DataConsumed ==
  (last.op = "insert" /\ last.err = "")
    => last.dataAfter =
         IF localOnly THEN <<>>
         ELSE IF LoadedByLast = <<>> THEN SortList(last.data)
         ELSE SelectSeq(SortList(last.data),
                LAMBDA d : d.start >= LoadedByLast[Len(LoadedByLast)].end)

\* an insert that has loaded a sub-range and has left an entry in the array
C12_Witness ==
  /\ last.op = "insert" /\ last.err = "" /\ ~localOnly
  /\ LoadedByLast # <<>>
  /\ last.log # <<>>
  /\ last.dataAfter # <<>>


\* the traverse in progress on a tree that withers, and the requests it issued
TraverseOnWithering == last.op = "traverse" /\ currGen # NoGen
IssuedByCall == SubSeq(hist.requested, hist.call.reqBefore + 1, Len(hist.requested))

\* C13 (as stated): when a traverse returns on a wither-enabled tree the
\* generation is one greater (modulo the wrap) than before the call, unless
\* doNotWither was set, also when an earlier wither pass is still pending.
C13_AlwaysAdvanced ==
  TraverseOnWithering
    => currGen = IF hist.call.doNotWither THEN hist.call.genBefore
                 ELSE (hist.call.genBefore + 1) % MaxGen

\* C13: when a traverse returns on a wither-enabled tree the generation is
\* one greater (modulo the wrap) than before the call if doNotWither was not
\* set and no wither pass was pending when the call was made; it is
\* unchanged if doNotWither was set, and also if a pass was pending: the
\* advance is then queued behind that pass and has not been applied yet.
C13_AdvancedUnlessPending ==
  TraverseOnWithering
    => /\ currGen = IF hist.call.doNotWither \/ hist.call.pendingBefore
                      THEN hist.call.genBefore
                      ELSE (hist.call.genBefore + 1) % MaxGen
       /\ (~hist.call.doNotWither /\ hist.call.pendingBefore)
            => /\ IssuedByCall[1].op = "advance"
               /\ \A k \in DOMAIN hist.applied : hist.applied[k].n <= hist.call.reqBefore

\* a traverse made while a pass was pending has returned
C13_Witness ==
  /\ TraverseOnWithering
  /\ ~hist.call.doNotWither
  /\ hist.call.pendingBefore
  /\ currGen = hist.call.genBefore

\* a request that waits in the chain of promises: a job of the engine or a
\* reaction registered on a pending promise serves it
Scheduled(n) ==
  \/ \E k \in DOMAIN jobs : jobs[k].req = n
  \/ \E q \in DOMAIN promises :
       \E k \in DOMAIN promises[q].reactions : promises[q].reactions[k].req = n

\* C14: a traverse that raises (data not ready, or an exception of the
\* callback) on a tree that withers has scheduled exactly one wither pass of
\* its own when the exception reaches the caller, and none when doNotWither
\* was set.
C14_RaisingTraverseWithers ==
  (TraverseOnWithering /\ last.err # "")
    => Let(SelectSeq(IssuedByCall, LAMBDA q : q.op = "wither"), LAMBDA passes :
         IF hist.call.doNotWither THEN passes = <<>>
         ELSE Len(passes) = 1 /\ Scheduled(passes[1].n))

\* a traverse whose callback raised has scheduled its pass
C14_Witness ==
  /\ TraverseOnWithering
  /\ last.err = "Callback"
  /\ ~hist.call.doNotWither
  /\ Scheduled(hist.requested[Len(hist.requested)].n)

\* the wither passes requested and not run yet
PassesWaiting ==
  {n \in 1..Len(hist.requested) :
     /\ hist.requested[n].op = "wither"
     /\ \A k \in DOMAIN hist.applied : hist.applied[k].n # n}

\* C15: wither passes are mutually exclusive.  A pass runs to its end inside
\* one promise job, and whatever the number of passes requested while an
\* earlier one is pending, at most one job of the tree is in the queue of
\* the engine at any time: a pass is only made runnable when the job before
\* it in the chain has finished.
C15_OnePassAtATime ==
  /\ Len(jobs) <= 1
  /\ \A k \in DOMAIN jobs :
       jobs[k].op = "wither" => \A n \in PassesWaiting : n >= jobs[k].req

\* a pass is about to run while two more requested passes wait for it
C15_Witness ==
  /\ jobs # <<>>
  /\ jobs[1].op = "wither"
  /\ Cardinality(PassesWaiting) >= 3

\* how many jobs and reactions serve request n
TimesScheduled(n) ==
  Cardinality({k \in DOMAIN jobs : jobs[k].req = n})
    + Cardinality({x \in UNION {{<<q, k>> : k \in DOMAIN promises[q].reactions} :
                                 q \in DOMAIN promises} :
                     promises[x[1]].reactions[x[2]].req = n})

\* C16: the advance and wither requests take effect in the order in which
\* they were issued, a request issued while a pass is pending only after
\* that pass: the requests applied so far are the first of the requests
\* issued, in the same order; a request that has been applied waits nowhere
\* (it is not applied again) and a request that has not been applied waits
\* exactly once in the chain of promises; when no job is left every request
\* has been applied.
C16_Fifo ==
  /\ Len(hist.applied) <= Len(hist.requested)
  /\ \A k \in DOMAIN hist.applied : hist.applied[k] = hist.requested[k]
  /\ \A n \in DOMAIN hist.requested :
       TimesScheduled(n) = IF n <= Len(hist.applied) THEN 0 ELSE 1
  /\ jobs = <<>> => /\ hist.applied = hist.requested
                    /\ witheringPromise = NoPromise
                    /\ pendingWitheringPromise = NoPromise

\* the last call requested an advance and a pass while a pass was pending,
\* and all the requests have been applied
C16_Witness ==
  /\ hist.call.pendingBefore
  /\ ~hist.call.doNotWither
  /\ Len(hist.requested) >= hist.call.reqBefore + 2
  /\ hist.passes >= 2
  /\ hist.applied = hist.requested
  /\ jobs = <<>>

\* C17: after a wither pass every subtree whose age exceeded lifeSpan when
\* the pass ran has been replaced by the filler, and every other subtree is
\* still there.  The age is the number of advances of the generation made
\* since the subtree was born or last visited, which the tree computes from
\* currGen and birthGen with the wrap.
C17_PassRemovesOld ==
  hist.passes > 0
    => \A i \in DOMAIN hist.passBefore.values :
         IsSub(hist.passBefore.values[i])
           => hist.passAfter.values[i] =
                IF hist.passAdvances - hist.passBefore.values[i].born
                     > TreeLifeSpan(lifeSpan)
                  THEN EmptyChildValue(localOnly)
                  ELSE hist.passBefore.values[i]

\* a pass made after the generation wrapped has removed a subtree and has
\* kept another
C17_Witness ==
  /\ hist.passes > 0
  /\ \E i \in DOMAIN hist.passBefore.values :
       /\ IsSub(hist.passBefore.values[i])
       /\ hist.passGen < hist.passBefore.values[i].birthGen
       /\ hist.passAfter.values[i] = NullSlot
  /\ \E j \in DOMAIN hist.passBefore.values :
       /\ IsSub(hist.passBefore.values[j])
       /\ hist.passAfter.values[j] = hist.passBefore.values[j]

\* C18: a tree built with lifeSpan = 0 or with localOnly = true does not
\* wither: its generation is null at construction and stays null whatever
\* is traversed, and no advance and no pass is ever scheduled or run.
C18_WitheringDisabled ==
  (localOnly \/ (lifeSpan.given /\ lifeSpan.value = 0))
    => /\ currGen = NoGen
       /\ witheringPromise = NoPromise
       /\ pendingWitheringPromise = NoPromise
       /\ promises = <<>>
       /\ jobs = <<>>
       /\ hist.requested = <<>>
       /\ hist.applied = <<>>
       /\ hist.passes = 0

\* a tree built with lifeSpan = 0 has loaded a range and has been traversed
\* by a call that asked for withering
C18_Witness ==
  /\ ~localOnly
  /\ lifeSpan.given /\ lifeSpan.value = 0
  /\ hist.calls >= 2
  /\ \E i \in DOMAIN root.values : IsSub(root.values[i])
  /\ last.op = "traverse" /\ ~hist.call.doNotWither

\* the Unloaded sub-ranges the last insert had to load
UncachedByLast ==
  UncachedOf(last.before,
             IF last.ranges = <<>>
               THEN [k \in DOMAIN last.data |->
                       Region(SortList(last.data)[k].start, SortList(last.data)[k].end)]
               ELSE last.ranges,
             1, <<>>)
FailedByLast == SelectSeq(last.tried, LAMBDA c : c.err # "")

\* C19: an insert into a tree that is not localOnly goes through every
\* Unloaded sub-range, also after one of them has failed: each sub-range is
\* tried once, in order, and when some failed the insert raises one
\* aggregated error that names every failed sub-range; without a failure no
\* error is raised.
C19_EveryRangeTried ==
  (last.op = "insert" /\ ~localOnly)
    => /\ Len(last.tried) = Len(UncachedByLast)
       /\ \A k \in DOMAIN last.tried : last.tried[k].range = UncachedByLast[k]
       /\ Len(last.errs) = Len(FailedByLast)
       /\ \A k \in DOMAIN last.errs : last.errs[k] = FailedByLast[k].range
       /\ last.err = IF FailedByLast = <<>> THEN "" ELSE "Aggregated"

\* the first sub-range of an insert failed and a later one was inserted
\* without an error
C19_Witness ==
  /\ last.op = "insert" /\ ~localOnly
  /\ Len(last.tried) >= 2
  /\ last.tried[1].err # ""
  /\ \E k \in DOMAIN last.tried : k > 1 /\ last.tried[k].err = ""
  /\ last.err = "Aggregated"


\* the start of the range of the last insert, the slot of its tree that
\* holds a coordinate, and the entries that start in a slot
RangeStartOfLast ==
  IF last.ranges # <<>> THEN last.ranges[1].start ELSE SortList(last.data)[1].start
SlotBefore(x) == last.before.values[SkipTo(last.before, 1, x)]
StoredBefore(i) == last.before.values[i].startList

\* the insert of C20: its continuedList holds an entry that starts in a
\* loaded slot which does not store it, a stored entry that starts later
\* precedes the range, and part of the range is Unloaded
InconsistentInsert ==
  /\ last.op = "insert" /\ ~localOnly
  /\ last.ranges # <<>> \/ last.data # <<>>
  /\ UncachedByLast # <<>>
  /\ \E k \in DOMAIN last.cl :
       /\ SlotBefore(last.cl[k].start).kind = "bin"
       /\ ~\E d \in Elems(SlotBefore(last.cl[k].start).startList
                          \o SlotBefore(last.cl[k].start).continuedList) :
             EqualTo(d, last.cl[k])
       /\ \E i \in DOMAIN last.before.values :
            /\ last.before.values[i].kind = "bin"
            /\ StoredBefore(i) # <<>>
            /\ last.cl[k].start < last.before.keys[i]
            /\ last.before.keys[i] < RangeStartOfLast

\* C20 (as stated): such an insert fails with the inconsistent-continuedList
\* error, surfaced as the error of the insert, and leaves the slots and bins
\* of the tree as they were.
C20_FailedInsertKeepsTree ==
  InconsistentInsert
    => /\ last.err = "Aggregated"
       /\ last.tried[1].err = "Inconsistent"
       /\ root = last.before

\* C20: such an insert fails with the inconsistent-continuedList error,
\* surfaced as the error of the insert; it leaves the slots and bins of the
\* tree as they were when it has one Unloaded sub-range to load.
C20_FailedInsertKeepsRange ==
  InconsistentInsert
    => /\ last.err = "Aggregated"
       /\ last.tried[1].err = "Inconsistent"
       /\ Len(UncachedByLast) = 1 => root = last.before

\* such an insert with one Unloaded sub-range has failed
C20_Witness ==
  /\ InconsistentInsert
  /\ Len(UncachedByLast) = 1
  /\ last.err = "Aggregated"
  /\ root = last.before

\* the step that is a call of clear()
ClearStep == last.op = "idle" /\ last'.op = "clear"

CoordsOf(s) == {c \in 0..(MaxCoord - 1) : \E k \in DOMAIN s : s[k].start <= c /\ c < s[k].end}
UnloadedInLast ==
  {c \in 0..(MaxCoord - 1) :
     /\ last.ranges[1].start <= c /\ c < last.ranges[1].end
     /\ root.values[SkipTo(root, 1, c)].kind = "null"}

C22_UncachedUnion ==
  (last.op = "uncached" /\ ~localOnly)
    => /\ \A k \in 1..(Len(last.uncached) - 1) :
            last.uncached[k].end <= last.uncached[k + 1].start
       /\ CoordsOf(last.uncached) = CoordsOf(last.seed) \cup UnloadedInLast

\* the slot of the tree that the last remove looked for its target in, and
\* the entries of a list that removing x shall leave
TargetSlot == last.before.values[SkipTo(last.before, 1, last.data[1].start)]
LeftBy(list, x, exactMatch) ==
  SelectSeq(list, LAMBDA d : ~(IF exactMatch THEN CompareData(x, d) ELSE d.start = x.start))

RECURSIVE KeysShaped(_)
KeysShaped(node) ==
  /\ Len(node.values) >= 1
  /\ Len(node.keys) = Len(node.values) + 1
  /\ \A k \in 1..(Len(node.keys) - 1) : node.keys[k] < node.keys[k + 1]
  /\ \A i \in DOMAIN node.values :
       IsNode(node.values[i]) => KeysShaped(node.values[i])

\* a call of the tree's interface is made in this step, and it returns
CallStep == last.op = "idle" /\ last'.op # "idle" /\ last'.err # Stuck

RECURSIVE KeysMatch(_)
KeysMatch(node) ==
  IsNode(node.values[1]) =>
    \A i \in DOMAIN node.values :
      /\ IsNode(node.values[i])
      /\ node.keys[i] = node.values[i].keys[1]
      /\ node.keys[i + 1] = node.values[i].keys[Len(node.values[i].keys)]
      /\ KeysMatch(node.values[i])

\* an insert or a remove has returned without an error
Completed == last.op \in {"insert", "remove"} /\ last.err = ""

\* C25: after an insert and after a remove, in every inner node of
\* reverseDepth > 0 the key i is the start of the child i and the key i + 1
\* is its end, also when the remove has merged a slot across the border of
\* two sibling nodes.
C25_KeysAreChildBounds == Completed => KeysMatch(root)

\* every child of a node of reverseDepth d > 0 is a node of reverseDepth
\* d - 1, and slots are held by nodes of reverseDepth 0 only
RECURSIVE Uniform(_)
Uniform(node) ==
  \/ \A i \in DOMAIN node.values : ~IsNode(node.values[i])
  \/ \A i \in DOMAIN node.values :
       /\ IsNode(node.values[i])
       /\ ReverseDepth(node.values[i]) = ReverseDepth(node) - 1
       /\ Uniform(node.values[i])

RECURSIVE LeafParents(_)
LeafParents(node) ==
  IF IsNode(node.values[1])
    THEN UNION {LeafParents(node.values[i]) : i \in DOMAIN node.values}
    ELSE {node}

\* two neighbouring slots of the node hold the same filler
SameFillers(node) ==
  \E i \in 1..(Len(node.values) - 1) :
     /\ node.values[i] \in {NullSlot, FalseSlot}
     /\ node.values[i + 1] = node.values[i]

\* C28: after every completed insert or remove, no node of reverseDepth 0 has
\* two neighbouring slots that are both Empty or both Unloaded.
C28_SameFillerMerged ==
  Completed => \A n \in LeafParents(root) : ~SameFillers(n)

\* the slots of the tree from left to right
RECURSIVE SlotsFrom(_, _)
SlotsOf(node) == SlotsFrom(node, 1)
SlotsFrom(node, i) ==
  IF i > Len(node.values) THEN <<>>
  ELSE (IF IsNode(node.values[i]) THEN SlotsFrom(node.values[i], 1)
        ELSE <<node.values[i]>>) \o SlotsFrom(node, i + 1)

\* C29: after every completed insert or remove, a stored bin whose startList
\* is empty is the first slot of the tree or comes right after an Unloaded
\* slot, never right after a loaded bin or an Empty slot.
C29_NoRedundantBin ==
  Completed
    => \A i \in DOMAIN SlotsOf(root) :
         (IsBin(SlotsOf(root)[i]) /\ SlotsOf(root)[i].startList = <<>>)
           => (i = 1 \/ SlotsOf(root)[i - 1] = NullSlot)

\* the list is in the order of ChromRegion.compare
SortedByCompare(list) ==
  \A k \in 1..(Len(list) - 1) : Compare(list[k], list[k + 1]) <= 0

\* the four parts of the content invariant of a bin b of a tree
StartsAtBin(b) == \A x \in Elems(b.startList) : x.start = b.start
ContinuesIntoBin(b) ==
  \A x \in Elems(b.continuedList) : x.start < b.start /\ b.start < x.end
BinListsSorted(b) == SortedByCompare(b.startList) /\ SortedByCompare(b.continuedList)
ContinuedComplete(node, b) ==
  \A x \in Stored(node) :
     (x.start < b.start /\ b.start < x.end) => x \in Elems(b.continuedList)
BinContent(node) ==
  \A b \in BinsOf(node) :
     /\ StartsAtBin(b)
     /\ ContinuesIntoBin(b)
     /\ BinListsSorted(b)
     /\ ContinuedComplete(node, b)

\* the last insert was given every interval of the source that overlaps the
\* range it loads: ValidInsert says so for a tree that loads ranges, and a
\* localOnly tree inserts over its whole range
GivenEveryInterval ==
  /\ last.op = "insert" /\ last.err = ""
  /\ localOnly => \A x \in source : \E d \in Elems(last.data) : EqualTo(d, x)

\* C30: on histories of inserts that are given every interval overlapping
\* their range, every bin b of the tree has in its startList only entries
\* that start at b.start, in its continuedList only entries that start before
\* b.start and end after it, both lists sorted by the comparator, and in its
\* continuedList every stored interval that starts before b.start and ends
\* after it (stated as the step from the tree before the insert to the tree
\* after it).
C30_BinContent ==
  (GivenEveryInterval /\ BinContent(last.before)) => BinContent(root)

\* C37: an insert through the tree's interface leaves the generation counter
\* as it was and requests no wither pass, the traversal of the pre-insertion
\* hook over the region before the insert range included.
C37_InsertKeepsGen ==
  last.op = "insert"
    => /\ currGen = hist.call.genBefore
       /\ Len(hist.requested) = hist.call.reqBefore

\* C32: restructure() returns: a remove through the tree's interface, which
\* ends with restructure() of the root, is never left in the loop that has
\* the children restructure themselves, nor in the loop over the children
\* that merges, splits and redistributes them.
C32_RestructureReturns == last.op = "remove" => last.err # Stuck

\* C31: after every completed insert or remove the sibling links of the nodes
\* of reverseDepth 0 are consistent: a.next is b exactly when b.prev is a,
\* which the links that are not written down satisfy, no link leads to a
\* node that is no longer in the tree, and a node ends where the node it is
\* linked to as next starts.
C31_LinksConsistent ==
  Completed
    => /\ ~LinksToTakenOut(root)
       /\ ReverseDepth(root) > 0
            => \A i \in 1..(ChildNum(root) - 1) :
                  root.values[i].keys[Len(root.values[i].keys)]
                    = root.values[i + 1].keys[1]

\* ------------------------------------------------ bins called on their own
\* Two bins, prevNode at s1 and testNode at s2 > s1, kept as the two slots
\* of one record; the calls are made on the bins themselves.
BinPair(s1, s2) ==
  [keys |-> <<s1, s2, MaxCoord>>, values |-> <<Bin(s1, <<>>, <<>>), Bin(s2, <<>>, <<>>)>>]

InitBin ==
  /\ localOnly = FALSE
  /\ source \in {S \in SUBSET BasePool : Cardinality(S) = MaxBinData}
  /\ \E s1 \in 0..(MaxCoord - 1), s2 \in 0..(MaxCoord - 1) :
       s1 < s2 /\ root = BinPair(s1, s2)
  /\ origin = NoBatch
  /\ last = Idle
  /\ branchingFactor = DEFAULT_B_FACTOR
  /\ NoWither

\* what a call on a bin records besides the fields of Idle: the bin called
\* (index), props.dataIndex and props.addNew, props.dataIndex and
\* props.continuedList after the call, the argument of mergeAfter
BinCall(index, di, addNew, diAfter, clAfter, node) ==
  [index |-> index, di |-> di, addNew |-> addNew, diAfter |-> diAfter,
   clAfter |-> clAfter, node |-> node]

\* bin.insert(data, chrRange, {dataIndex: di, continuedList: cl, addNew}) on
\* either bin: data is sorted, cl is sorted and holds entries passed on from
\* earlier regions, which start before chrRange, so before the bin and
\* before every entry of data
DataNodeInsert ==
  /\ last.op = "idle"
  /\ \E role \in [source -> {"none", "data", "cl"}], g \in Ids, index \in 1..2,
        addNew \in BOOLEAN, di \in 0..MaxBinData :
       Let(SortList(SeqOf({Obj(x, g) : x \in {y \in source : role[y] = "data"}})),
           LAMBDA data :
       Let(SortList(SeqOf({Obj(x, g) : x \in {y \in source : role[y] = "cl"}})),
           LAMBDA cl :
         /\ di <= Len(data)
         /\ \A k \in DOMAIN cl : cl[k].start < root.values[index].start
         /\ \A k \in DOMAIN cl, j \in DOMAIN data : cl[k].start < data[j].start
         /\ Let(BinInsert(root.values[index], InsCtx(data, cl), di, addNew), LAMBDA r :
              /\ root' = [root EXCEPT !.values[index] = r.bin]
              /\ last' = BinCall(index, di, addNew, r.di, r.cx.cl, NoSlot)
                           @@ [Idle EXCEPT !.op = "binInsert", !.data = data, !.cl = cl,
                                           !.before = root, !.log = r.cx.log])))
  /\ UNCHANGED <<localOnly, source, origin, branchingFactor, witherVars>>

\* prevNode.mergeAfter(node): node is testNode, false or null
DataNodeMergeAfter ==
  /\ last.op = "idle"
  /\ \E node \in {root.values[2], FalseSlot, NullSlot} :
       Let(ChildMergable(root.values[1], node), LAMBDA m :
         /\ root' = IF IsBin(node) THEN [root EXCEPT !.values[2] = m.back] ELSE root
         /\ last' = BinCall(1, 0, FALSE, 0, <<>>, node)
                      @@ [Idle EXCEPT !.op = "mergeAfter", !.before = root, !.ret = m.ok])
  /\ UNCHANGED <<localOnly, source, origin, branchingFactor, witherVars>>

NextBin == DataNodeInsert \/ DataNodeMergeAfter \/ Return
SpecBin == InitBin /\ [][NextBin]_vars

\* ------------------------------------------------------- the bins' own calls
\* the bin that bin.insert was called on, after and before the call
CalledBin == root.values[last.index]
CalledBinBefore == last.before.values[last.index]

\* the entries of the batch from the cursor on that start before the bin,
\* and those that start where the bin starts
BatchBefore ==
  SelectSeq(SubSeq(last.data, last.di + 1, Len(last.data)),
            LAMBDA e : e.start < CalledBin.start)
BatchAt ==
  SelectSeq(SubSeq(last.data, last.di + 1, Len(last.data)),
            LAMBDA e : e.start = CalledBin.start)

\* the continuedList of the claim: the carry-forward list followed by the
\* batch entries before the bin, restricted to what ends after its start
ExpectedContinuedList ==
  SelectSeq(last.cl \o BatchBefore, LAMBDA e : e.end > CalledBin.start)

\* C33: after bin.insert on a sorted batch, a cursor and a carry-forward
\* list, the bin's continuedList is the carry-forward list followed by the
\* batch entries from the cursor that start before the bin, restricted to
\* the entries that end after the bin's start; props.continuedList is then
\* that continuedList followed by the bin's startList; and the startList is
\* the batch entries from the cursor that start at the bin's start when
\* props.addNew is not set, and with props.addNew the startList of before
\* with those of these entries appended that compare equal to none of its
\* entries, sorted.
C33_InsertPost ==
  last.op = "binInsert"
    => /\ CalledBin.continuedList = ExpectedContinuedList
       /\ last.clAfter = CalledBin.continuedList \o CalledBin.startList
       /\ ~last.addNew => CalledBin.startList = BatchAt
       /\ last.addNew
            => CalledBin.startList
                 = SortList(CalledBinBefore.startList
                      \o SelectSeq(BatchAt, LAMBDA d :
                           ~\E k \in DOMAIN CalledBinBefore.startList :
                               CompareData(CalledBinBefore.startList[k], d)))

\* the statement of C33 as it was made: the startList is the batch entries
\* that start at the bin's start, whatever the options
C33_StartListIsSlice ==
  last.op = "binInsert"
    => /\ CalledBin.continuedList = ExpectedContinuedList
       /\ last.clAfter = CalledBin.continuedList \o CalledBin.startList
       /\ CalledBin.startList = BatchAt

\* bin.insert with props.addNew and a cursor past the first entry met a
\* startList that held a clone of the entry supplied: the entry was not
\* added, and the entry that starts before the bin went to the continuedList
C33_Witness ==
  /\ last.op = "binInsert"
  /\ last.addNew
  /\ last.di > 0
  /\ CalledBinBefore.startList # <<>>
  /\ BatchAt # <<>>
  /\ CalledBin.startList = CalledBinBefore.startList
  /\ CalledBin.startList # BatchAt
  /\ CalledBin.continuedList # <<>>

\* C34: prevNode.mergeAfter(node) returns true exactly when node is false
\* (Empty) or a bin whose startList is empty, so it returns false for null
\* (Unloaded) and for a bin whose startList holds an entry; and a merge that
\* returned true has changed neither list of prevNode.
C34_MergeAfter ==
  last.op = "mergeAfter"
    => /\ last.ret <=> (\/ last.node.kind = "false"
                        \/ IsBin(last.node) /\ last.node.startList = <<>>)
       /\ last.ret => root.values[1] = last.before.values[1]

\* prevNode, holding entries in both lists, has merged with false, beside a
\* testNode that holds a continuedList only
C34_Witness ==
  /\ last.op = "mergeAfter"
  /\ last.ret
  /\ last.node.kind = "false"
  /\ root.values[1].startList # <<>>
  /\ root.values[1].continuedList # <<>>
  /\ root.values[2].startList = <<>>
  /\ root.values[2].continuedList # <<>>

\* prevNode.mergeAfter(testNode) returned false for a testNode whose
\* startList holds an entry: the lists of prevNode were projected into the
\* continuedList of testNode
FailedMerge == last.op = "mergeAfter" /\ ~last.ret /\ IsBin(last.node)

\* the list that mergeAfter hands to testNode._updateContinuedList
Projected == root.values[1].continuedList \o root.values[1].startList

HeldInBins(node, x) ==
  \E i \in 1..ChildNum(node) :
    /\ IsBin(node.values[i])
    /\ \/ \E k \in DOMAIN node.values[i].startList : EqualTo(node.values[i].startList[k], x)
       \/ \E k \in DOMAIN node.values[i].continuedList :
            EqualTo(node.values[i].continuedList[k], x)

\* a traversal of the tree over r that lets Unloaded slots pass hands an
\* entry that compares equal to x to its dataCallback
VisitedOver(node, r, x) ==
  Let(TreeTraverse(node, r, TravProps("user", TRUE, FALSE, -1, -1), FALSE, <<>>, <<>>).ts.log,
      LAMBDA log : \E k \in DOMAIN log : EqualTo(log[k], x))

\* C39: after tree.remove(x) of a stored interval x that spans several bins
\* no bin holds x any more, neither in the startList of its own bin nor in
\* the continuedList of the bins it flows into, and no traversal over any
\* range passes x to dataCallback.
C39_RemovedIsGone ==
  (last.op = "remove" /\ HeldInBins(last.before, last.data[1]))
    => /\ ~HeldInBins(root, last.data[1])
       /\ \A r \in Ranges : ~VisitedOver(root, r, last.data[1])

\* C40: the generation counter of a tree that withers is at least 0 and
\* less than MAX_GENERATION, and every advance by an amount n >= 1 from the
\* value g has left (g + n) mod MAX_GENERATION.
C40_GenModulo ==
  /\ currGen # NoGen => (0 <= currGen /\ currGen < MaxGen)
  /\ \A k \in DOMAIN hist.applied :
       "amount" \in DOMAIN hist.applied[k]
         => hist.applied[k].to
              = (hist.applied[k].from + hist.applied[k].amount) % MaxGen

\* the number of traversals made without doNotWither on a tree that withers:
\* each has requested one advance
AdvancesRequested ==
  Cardinality({k \in DOMAIN hist.requested : hist.requested[k].op = "advance"})

\* nothing is queued or marked, every request has taken effect, and the
\* generation is the number of advances requested (modulo the wrap)
Quiescent ==
  currGen # NoGen
    => /\ jobs = <<>>
       /\ witheringPromise = NoPromise
       /\ pendingWitheringPromise = NoPromise
       /\ Len(hist.applied) = Len(hist.requested)
       /\ currGen = AdvancesRequested % MaxGen

\* C38: after any finite sequence of traversals of a tree that withers the
\* queue of the wither chain drains: eventually, and from then on, every
\* scheduled pass has run, every deferred advance is applied, the two promise
\* fields are null and the generation is the number of traversals made
\* without doNotWither, modulo the wrap; wither passes may raise.
C38_Quiescence == <>[]Quiescent

====
